---- MODULE Spec2Model ----
(***************************************************************************)
(* Model of the EUDR compliance engine of supply-chain-tracker.            *)
(*                                                                         *)
(* Part 1: GeoJSONService.validateGeoJSON                                  *)
(*         (backend/src/services/geojson.service.ts).                      *)
(*                                                                         *)
(* JavaScript values are tagged records: [t |-> "undefined"],              *)
(* [t |-> "null"], [t |-> "number", ...], [t |-> "string", ...],           *)
(* [t |-> "array", items |-> <<...>>] and [t |-> "object", ...].           *)
(* A number is the decimal  (-1)^neg * mant * 10^(-dec)  in the shortest   *)
(* form (mant has no trailing zero when dec > 0), which is the form        *)
(* Number.prototype.toString prints.                                       *)
(* A function that may throw returns [ok |-> TRUE, value |-> v] or         *)
(* [ok |-> FALSE].                                                         *)
(***************************************************************************)
EXTENDS Integers, Sequences, FiniteSets, TLC

VARIABLES
    input,                \* the argument of validateGeoJSON
    pc,                   \* "call" | "loop" | "returned" | "threw"
    featureCollection,    \* the normalized collection (line 39)
    i,                    \* the loop index (line 70)
    errors,               \* line 21
    warnings,             \* line 22
    featureResults,       \* line 23
    totalAreaHa,          \* line 24, in units of 1/10000 ha (= 1 m2)
    requiresPolygonCount, \* line 25
    plotIds,              \* line 67
    result                \* the returned report, NoResult before the return

vars == <<input, pc, featureCollection, i, errors, warnings, featureResults,
          totalAreaHa, requiresPolygonCount, plotIds, result>>

\* The callers of the service (routes/batch.ts, routes/dds.ts) and the calls
\* of the other functions of the service
VARIABLES
    geolocation,          \* the geolocation a caller holds (batch.ts line 26,
                          \* dds routes line 519)
    normalizedGeo,        \* the outcome of normalizeToFeatureCollection
                          \* (batch.ts line 54), NoResult before the call
    renormalized,         \* the outcome of normalizing normalizedGeo again
    enrichedGeo,          \* the collection handed to computeGeolocationHash (batch.ts line 75)
    geolocationHash,      \* its digest (batch.ts line 78), NoResult before the call
    metadata,             \* the batch metadata fetched from IPFS (dds routes line 443)
    ddsPc,                \* the position of GET /generate/:tokenId
    ddsTotalAreaHa,       \* totalAreaHa of buildDueDiligenceStatement (line 525)
    riskLevel,            \* calculateRiskAssessment, line 634; "unassigned" before
    mitigationMeasures,   \* calculateRiskAssessment, line 633
    response,             \* what the dds route answered, NoResult before
    bodyLimit,            \* the limit of express.json() (index.ts line 14)
    request,              \* a request to routes/batch.ts: its route, its sizes, its body
    routePc,              \* the position of the request
    batchMetadata,        \* POST /mint, line 92
    cid,                  \* POST /mint, line 133: the outcome of the upload
    reply                 \* what the batch route answered, NoResult before

\* Calls of the service on behalf of several requests at once
VARIABLES
    arguments,            \* for each request, the objects its caller passes
    activations           \* for each request, the locals of its call

\* The SupplyChainNFT contract (contracts/SupplyChainNFT.sol)
VARIABLES
    nextTokenId,          \* _nextTokenId, line 144
    owners,               \* ERC721._owners: the owner of each token minted
    tokenURIs,            \* ERC721URIStorage._tokenURIs
    batches,              \* line 158
    batchHistory,         \* line 159
    roles,                \* AccessControl._roles: the accounts holding each role
    receipts,             \* the outcome of each transaction sent, in order
    lastTransaction,      \* the transaction sent last and its outcome
    blockNumber           \* the number of transactions sent

\* The IoT routes (routes/iot.ts, in frontend/src/components/Layout.tsx)
VARIABLES
    iotDataBuffer,        \* line 233: the Map from a token id to its array
    arrays,               \* the arrays the routes created, by reference
    readingCount,         \* the number of readings the routes accepted
    aggregates,           \* for each aggregate request, where it is and its locals
    pushed,               \* the aggregates the chain accepted, in order
    iotReplies,           \* the status each aggregate request answered last
    dataReply             \* the status POST /data or /simulate answered last

normalizeVars == <<geolocation, normalizedGeo, renormalized>>
hashVars == <<enrichedGeo, geolocationHash>>
ddsVars == <<metadata, ddsPc, ddsTotalAreaHa, riskLevel, mitigationMeasures, response>>
routeVars == <<bodyLimit, request, routePc, batchMetadata, cid, reply>>

\* what a call of validateGeoJSON leaves alone
concurrentVars == <<arguments, activations>>
contractVars == <<nextTokenId, owners, tokenURIs, batches, batchHistory, roles, receipts,
                  lastTransaction, blockNumber>>
iotVars == <<iotDataBuffer, arrays, readingCount, aggregates, pushed, iotReplies, dataReply>>
laterVars == <<concurrentVars, contractVars, iotVars>>

callerVars == <<normalizeVars, hashVars, ddsVars, routeVars, laterVars>>

allVars == <<vars, callerVars>>

\* what each of the other calls leaves alone
exceptNormalize == <<vars, hashVars, ddsVars, routeVars, laterVars>>
exceptHash == <<vars, normalizeVars, ddsVars, routeVars, laterVars>>
exceptDds == <<normalizedGeo, renormalized, hashVars, routeVars, laterVars>>
exceptRoute == <<renormalized, ddsVars, laterVars>>

\* the largest number of features of an input collection
MaxFeatures == 2

(***************************************************************************)
(* JavaScript values                                                       *)
(***************************************************************************)
Undefined == [t |-> "undefined"]
Null == [t |-> "null"]
Num(neg, mant, dec) == [t |-> "number", neg |-> neg, mant |-> mant, dec |-> dec]
Str(s) == [t |-> "string", s |-> s]
Arr(items) == [t |-> "array", items |-> items]

\* obj.field, undefined when the object has no such own field
Get(obj, field) ==
    IF obj.t = "object" /\ field \in DOMAIN obj THEN obj[field] ELSE Undefined

\* null or undefined: a property access on it throws a TypeError
IsNullish(v) == v.t \in {"undefined", "null"}

\* ToBoolean
Truthy(v) ==
    CASE v.t \in {"undefined", "null"} -> FALSE
      [] v.t = "number" -> v.mant # 0
      [] v.t = "string" -> v.s # ""
      [] OTHER -> TRUE

\* typeof v === 'object'  (null is an object, an array is an object)
TypeofObject(v) == v.t \in {"null", "object", "array"}

\* v >= n for a number v and a natural n
NumGE(v, n) == /\ v.t = "number"
               /\ \/ (~v.neg /\ v.mant >= n * 10^(v.dec))
                  \/ (v.neg /\ n = 0 /\ v.mant = 0)

(***************************************************************************)
(* Number.prototype.toString                                               *)
(***************************************************************************)
DigitChar(d) == <<"0", "1", "2", "3", "4", "5", "6", "7", "8", "9">>[d + 1]

RECURSIVE Digits(_)
Digits(n) == IF n < 10 THEN <<DigitChar(n)>>
             ELSE Digits(n \div 10) \o <<DigitChar(n % 10)>>

Zeros(n) == [j \in 1..n |-> "0"]

\* ECMAScript Number::toString(x, 10) for the digits ds of the number and dec
\* digits after the decimal point: with k digits and the decimal point after
\* the n-th digit, plain notation for -6 < n <= 21 and exponent notation
\* below (values of 10^21 and above are outside the model)
FormatNumber(negative, ds, dec) ==
    LET k == Len(ds)
        n == Len(ds) - dec
        body ==
            IF dec = 0 THEN ds
            ELSE IF n > 0 THEN SubSeq(ds, 1, n) \o <<".">> \o SubSeq(ds, n + 1, k)
            ELSE IF n > -6 THEN <<"0", ".">> \o Zeros(-n) \o ds
            ELSE IF k = 1 THEN ds \o <<"e", "-">> \o Digits(1 - n)
            ELSE <<ds[1], ".">> \o SubSeq(ds, 2, k) \o <<"e", "-">> \o Digits(1 - n)
    IN (IF negative THEN <<"-">> ELSE <<>>) \o body

NumberToString(v) == FormatNumber(v.neg /\ v.mant # 0, Digits(v.mant), v.dec)

\* String.prototype.indexOf for one character: 0-based, -1 when absent
IndexOf(str, ch) ==
    IF \E j \in 1..Len(str) : str[j] = ch
    THEN (CHOOSE j \in 1..Len(str) :
              str[j] = ch /\ \A h \in 1..(j - 1) : str[h] # ch) - 1
    ELSE -1

\* lines 232-234, for str = value.toString()
DecimalsOfString(str) ==
    LET decimalIndex == IndexOf(str, ".")
    IN IF decimalIndex = -1 THEN 0 ELSE Len(str) - decimalIndex - 1

\* lines 230-235
getDecimalPrecision(value) == DecimalsOfString(NumberToString(value))

(***************************************************************************)
(* normalizeToFeatureCollection, lines 157-190                             *)
(***************************************************************************)
Ok(v) == [ok |-> TRUE, value |-> v]
Threw(message) == [ok |-> FALSE, message |-> message]

\* mutant: a Feature is wrapped whether or not it has a geometry
normalizeToFeatureCollection_AnyFeature(in) ==
    IF ~Truthy(in) \/ ~TypeofObject(in)
    THEN Threw("Invalid GeoJSON input")
    ELSE IF Get(in, "type") = Str("FeatureCollection")
            /\ Get(in, "features").t = "array"
    THEN Ok(in)
    ELSE IF Get(in, "type") = Str("Feature")
    THEN Ok([t |-> "object", type |-> Str("FeatureCollection"),
             features |-> Arr(<<in>>)])
    ELSE IF Get(in, "type") = Str("Point") \/ Get(in, "type") = Str("Polygon")
    THEN Ok([t |-> "object", type |-> Str("FeatureCollection"),
             features |-> Arr(<<[t |-> "object", type |-> Str("Feature"),
                                 geometry |-> in,
                                 properties |-> [t |-> "object"]]>>)])
    ELSE Threw("Unable to parse as valid GeoJSON")

\* mutant: a bare geometry is wrapped as a Feature with null properties
normalizeToFeatureCollection_NullProperties(in) ==
    IF ~Truthy(in) \/ ~TypeofObject(in)
    THEN Threw("Invalid GeoJSON input")
    ELSE IF Get(in, "type") = Str("FeatureCollection")
            /\ Get(in, "features").t = "array"
    THEN Ok(in)
    ELSE IF Get(in, "type") = Str("Feature") /\ Truthy(Get(in, "geometry"))
    THEN Ok([t |-> "object", type |-> Str("FeatureCollection"),
             features |-> Arr(<<in>>)])
    ELSE IF Get(in, "type") = Str("Point") \/ Get(in, "type") = Str("Polygon")
    THEN Ok([t |-> "object", type |-> Str("FeatureCollection"),
             features |-> Arr(<<[t |-> "object", type |-> Str("Feature"),
                                 geometry |-> in,
                                 properties |-> Null]>>)])
    ELSE Threw("Unable to parse as valid GeoJSON")

normalizeToFeatureCollection(in) ==
    IF ~Truthy(in) \/ ~TypeofObject(in)
    THEN Threw("Invalid GeoJSON input")
    ELSE IF Get(in, "type") = Str("FeatureCollection")
            /\ Get(in, "features").t = "array"
    THEN Ok(in)
    ELSE IF Get(in, "type") = Str("Feature") /\ Truthy(Get(in, "geometry"))
    THEN Ok([t |-> "object", type |-> Str("FeatureCollection"),
             features |-> Arr(<<in>>)])
    ELSE IF Get(in, "type") = Str("Point") \/ Get(in, "type") = Str("Polygon")
    THEN Ok([t |-> "object", type |-> Str("FeatureCollection"),
             features |-> Arr(<<[t |-> "object", type |-> Str("Feature"),
                                 geometry |-> in,
                                 properties |-> [t |-> "object"]]>>)])
    ELSE Threw("Unable to parse as valid GeoJSON")

(***************************************************************************)
(* extractCoordinates and getMinCoordinatePrecision, lines 195-225         *)
(***************************************************************************)
\* Array.prototype.flat(): one level
RECURSIVE Flat(_)
Flat(items) ==
    IF items = <<>> THEN <<>>
    ELSE (IF Head(items).t = "array" THEN Head(items).items ELSE <<Head(items)>>)
         \o Flat(Tail(items))

\* [ok, value]: the list of positions; a Polygon whose coordinates is not an
\* array has no flat() and the call throws a TypeError
extractCoordinates(geometry) ==
    IF Get(geometry, "type") = Str("Point")
    THEN Ok(<<Get(geometry, "coordinates")>>)
    ELSE IF Get(geometry, "type") = Str("Polygon")
    THEN IF Get(geometry, "coordinates").t = "array"
         THEN Ok(Flat(Get(geometry, "coordinates").items))
         ELSE Threw("TypeError")
    ELSE Ok(<<>>)

\* minPrecision is Infinity (line 197) or a finite count
Infinity == [inf |-> TRUE]
Finite(n) == [inf |-> FALSE, n |-> n]

\* lines 202-204
LowerOf(precision, minPrecision) ==
    IF minPrecision.inf \/ precision < minPrecision.n
    THEN Finite(precision) ELSE minPrecision

\* the inner loop, lines 200-205: value.toString() throws on null/undefined
RECURSIVE MinOverValues(_, _)
MinOverValues(values, minPrecision) ==
    IF values = <<>> THEN Ok(minPrecision)
    ELSE IF Head(values).t # "number" THEN Threw("TypeError")
    ELSE MinOverValues(Tail(values),
                       LowerOf(getDecimalPrecision(Head(values)), minPrecision))

\* the outer loop, lines 199-206: for..of throws on a value that is not
\* iterable; `inner` is the outcome of the inner loop on the first position
RECURSIVE MinOverCoords(_, _)
RestOfCoords(rest, inner) ==
    IF ~inner.ok THEN inner ELSE MinOverCoords(rest, inner.value)

MinOverCoords(coords, minPrecision) ==
    IF coords = <<>> THEN Ok(minPrecision)
    ELSE IF Head(coords).t # "array" THEN Threw("TypeError")
    ELSE RestOfCoords(Tail(coords), MinOverValues(Head(coords).items, minPrecision))

\* line 208
InfinityToZero(m) ==
    IF ~m.ok THEN m ELSE Ok(IF m.value.inf THEN 0 ELSE m.value.n)

\* lines 196-208, for coords = this.extractCoordinates(geometry)
MinPrecisionOf(coords) ==
    IF ~coords.ok THEN coords
    ELSE InfinityToZero(MinOverCoords(coords.value, Infinity))

getMinCoordinatePrecision(geometry) == MinPrecisionOf(extractCoordinates(geometry))

(***************************************************************************)
(* The inputs of the model                                                 *)
(***************************************************************************)
Obj(type) == [t |-> "object", type |-> Str(type)]

\* positions [longitude, latitude]
PosA == Arr(<<Num(TRUE, 1234567, 6), Num(FALSE, 6123456, 6)>>)   \* [-1.234567, 6.123456]
PosB == Arr(<<Num(TRUE, 1234467, 6), Num(FALSE, 6123456, 6)>>)   \* [-1.234467, 6.123456]
PosC == Arr(<<Num(TRUE, 1234467, 6), Num(FALSE, 6124456, 6)>>)   \* [-1.234467, 6.124456]
PosLow == Arr(<<Num(FALSE, 3123456, 6), Num(FALSE, 71, 1)>>)     \* [3.123456, 7.1]
PosInt == Arr(<<Num(FALSE, 3, 0), Num(FALSE, 7123456, 6)>>)      \* [3, 7.123456]
PosTiny == Arr(<<Num(FALSE, 1, 7), Num(FALSE, 6123456, 6)>>)     \* [0.0000001, 6.123456]
PosTiny2 == Arr(<<Num(FALSE, 15, 8), Num(FALSE, 6123456, 6)>>)   \* [0.00000015, 6.123456]
PosCent == Arr(<<Num(TRUE, 123, 2), Num(FALSE, 6123456, 6)>>)    \* [-1.23, 6.123456]
PosNull == Arr(<<Null, Num(FALSE, 6123456, 6)>>)                 \* [null, 6.123456]

Ring1 == Arr(<<PosA, PosB, PosC, PosA>>)
Ring2 == Arr(<<PosA, PosC, PosB, PosA>>)
RingHole == Arr(<<PosA, PosCent, PosC, PosA>>)
RingLine == Arr(<<PosA, PosB>>)

Geom(type, coordinates) ==
    [t |-> "object", type |-> Str(type), coordinates |-> coordinates]

PointGood == Geom("Point", PosA)
PointLow == Geom("Point", PosLow)
PointInt == Geom("Point", PosInt)
PointTiny == Geom("Point", PosTiny)
PointTiny2 == Geom("Point", PosTiny2)
PointEmpty == Geom("Point", Arr(<<>>))
PointNoCoords == Obj("Point")
PointNumCoords == Geom("Point", Num(FALSE, 5, 0))
PointNullComp == Geom("Point", PosNull)
PolyGood == Geom("Polygon", Arr(<<Ring1>>))
PolyOther == Geom("Polygon", Arr(<<Ring2>>))
PolyHole == Geom("Polygon", Arr(<<Ring1, RingHole>>))
PolyDegenerate == Geom("Polygon", Arr(<<RingLine>>))
PolyEmpty == Geom("Polygon", Arr(<<>>))
PolyNoCoords == Obj("Polygon")
PolyBadRing == Geom("Polygon", Arr(<<Num(FALSE, 5, 0)>>))
LineString == Geom("LineString", Arr(<<PosA, PosB>>))

Geometries ==
    {PointGood, PointLow, PointInt, PointTiny, PointTiny2, PointEmpty,
     PointNoCoords, PointNumCoords, PointNullComp, PolyGood, PolyOther,
     PolyHole, PolyDegenerate, PolyEmpty, PolyNoCoords, PolyBadRing, LineString}

\* declared areas: 0, 3.999999, 4, 5
AreaZero == Num(FALSE, 0, 0)
AreaBelow == Num(FALSE, 3999999, 6)
AreaAt == Num(FALSE, 4, 0)
AreaAbove == Num(FALSE, 5, 0)

Props(area_ha, plot_id) ==
    [t |-> "object", area_ha |-> area_ha, plot_id |-> plot_id]

Feat(geometry, properties) ==
    [t |-> "object", type |-> Str("Feature"), geometry |-> geometry,
     properties |-> properties]

\* the elements a features array may hold
Elements ==
    \* every geometry, and no geometry, with a plot_id and no declared area
    {Feat(g, Props(Undefined, Str("P1"))) : g \in Geometries \cup {Null, Undefined}}
    \* a Point with each declared area, with and without a plot_id
    \cup {Feat(PointGood, Props(a, p)) :
            a \in {AreaZero, AreaBelow, AreaAt, AreaAbove},
            p \in {Str("P1"), Undefined}}
    \cup {Feat(PointGood, Props(AreaBelow, Str("P2"))),
          Feat(PointGood, Props(AreaBelow, Str(""))),
          Feat(PointLow, Props(AreaAbove, Undefined)),
          Feat(PolyGood, Props(Undefined, Undefined)),
          Feat(PolyGood, Props(AreaAbove, Str("P2"))),
          Feat(PolyDegenerate, Props(Undefined, Undefined)),
          Feat(PointGood, Null),
          [t |-> "object", type |-> Str("Feature"), geometry |-> PolyOther],
          [t |-> "object", type |-> Str("Other"), geometry |-> PointGood,
           properties |-> Props(AreaBelow, Str("P1"))],
          Null,
          Num(FALSE, 5, 0)}

RECURSIVE SeqsUpTo(_, _)
SeqsUpTo(S, n) ==
    IF n = 0 THEN {<<>>}
    ELSE LET shorter == SeqsUpTo(S, n - 1)
         IN shorter \cup {Append(q, e) : q \in {r \in shorter : Len(r) = n - 1}, e \in S}

\* every value validateGeoJSON is called with in the model
Inputs ==
    \* not an object
    {Undefined, Null, Num(FALSE, 0, 0), Num(FALSE, 5, 0), Str("geojson")}
    \* a FeatureCollection
    \cup {[t |-> "object", type |-> Str("FeatureCollection"), features |-> Arr(fs)] :
            fs \in SeqsUpTo(Elements, MaxFeatures)}
    \* a FeatureCollection with other fields and no features
    \cup {[t |-> "object", type |-> Str("FeatureCollection"), features |-> Arr(<<>>),
           geometry |-> PointGood, properties |-> Props(AreaAbove, Str("P1"))],
          [t |-> "object", type |-> Str("FeatureCollection")],
          [t |-> "object", type |-> Str("FeatureCollection"), features |-> Str("none"),
           geometry |-> PointGood],
          [t |-> "object", type |-> Str("FeatureCollection"), features |-> Null]}
    \* a single Feature, a bare geometry, anything else
    \cup {e \in Elements : e.t = "object"}
    \cup Geometries
    \cup {[t |-> "object"], Arr(<<>>)}

(***************************************************************************)
(* turf.area (an external library, line 104): its outcome for the polygons *)
(* of the model, in m2; the call is taken to throw on a degenerate ring.   *)
(* Areas are whole m2 and sums are exact; the values stay away from the    *)
(* rounding ties of line 149, where binary floating point could differ.    *)
(***************************************************************************)
turfArea(feature) ==
    LET coordinates == Get(Get(feature, "geometry"), "coordinates")
    IN CASE coordinates = Arr(<<Ring1>>) -> Ok(25004)
         [] coordinates = Arr(<<Ring2>>) -> Ok(15004)
         [] coordinates = Arr(<<Ring1, RingHole>>) -> Ok(12346)
         [] coordinates = Arr(<<>>) -> Ok(0)
         [] OTHER -> Threw("Error")

(***************************************************************************)
(* EUDR_CONSTANTS, backend/src/types/eudr.types.ts lines 257-260           *)
(***************************************************************************)
MIN_COORDINATE_PRECISION == 6
LARGE_PLOT_THRESHOLD_HA == 4

(***************************************************************************)
(* validateGeoJSON, lines 20-152                                           *)
(*                                                                         *)
(* The accumulators of the call are the record                             *)
(* [errors, warnings, featureResults, totalAreaHa, requiresPolygonCount,   *)
(*  plotIds]; each rule of the loop body maps it to its next value.        *)
(***************************************************************************)
NoResult == [t |-> "none"]

\* an early return, lines 29-36, 45-52 and 56-63
EarlyReport(error) ==
    [valid |-> FALSE, errors |-> <<error>>, warnings |-> <<>>, features |-> <<>>,
     total_area_ha |-> 0, requires_polygon_count |-> 0]

\* Math.round(totalAreaHa * 1000) / 1000 (line 149), in thousandths of a
\* hectare, for a total in units of 1/10000 ha
Round3(total) == (total + 5) \div 10

\* mutant: a warning makes the report invalid
FinalReport_WarningsInvalidate(acc) ==
    [valid |-> Len(acc.errors) = 0 /\ Len(acc.warnings) = 0,
     errors |-> acc.errors, warnings |-> acc.warnings,
     features |-> acc.featureResults, total_area_ha |-> Round3(acc.totalAreaHa),
     requires_polygon_count |-> acc.requiresPolygonCount]

\* the final return, lines 144-151
FinalReport(acc) ==
    [valid |-> Len(acc.errors) = 0, errors |-> acc.errors, warnings |-> acc.warnings,
     features |-> acc.featureResults, total_area_ha |-> Round3(acc.totalAreaHa),
     requires_polygon_count |-> acc.requiresPolygonCount]

PushError(acc, e) == [acc EXCEPT !.errors = Append(@, e)]

\* What one rule of the loop body pushes for one feature: the errors and the
\* warnings in push order, the area added to totalAreaHa, the increment of
\* requiresPolygonCount and the plot_ids added to plotIds.
Pushes(errs, warns) ==
    [errors |-> errs, warnings |-> warns, area |-> 0, count |-> 0, ids |-> {}]

\* lines 94-98
PrecisionRule(idx, coordPrecision) ==
    IF coordPrecision < MIN_COORDINATE_PRECISION
    THEN Pushes(<<[kind |-> "Precision", index |-> idx, found |-> coordPrecision]>>,
                <<>>)
    ELSE Pushes(<<>>, <<>>)

\* lines 100-110; areaHa stays undefined for a Point and when turf.area throws
AreaHa(feature, geomType) ==
    IF geomType = Str("Polygon") /\ turfArea(feature).ok
    THEN [t |-> "number", m2 |-> turfArea(feature).value]
    ELSE Undefined

\* mutant: a failed area computation is an error
AreaRule_FailureIsError(idx, feature, geomType) ==
    IF geomType = Str("Polygon")
    THEN IF turfArea(feature).ok
         THEN [Pushes(<<>>, <<>>) EXCEPT !.area = turfArea(feature).value]
         ELSE Pushes(<<[kind |-> "AreaFailed", index |-> idx]>>, <<>>)
    ELSE Pushes(<<>>, <<>>)

\* mutant: the declared area_ha of a Point is added to the total
AreaRule_AddsDeclaredArea(idx, feature, geomType) ==
    IF geomType = Str("Polygon")
    THEN IF turfArea(feature).ok
         THEN [Pushes(<<>>, <<>>) EXCEPT !.area = turfArea(feature).value]
         ELSE Pushes(<<>>, <<[kind |-> "AreaFailed", index |-> idx]>>)
    ELSE LET area_ha == Get(Get(feature, "properties"), "area_ha")
         IN IF area_ha.t = "number"
            THEN [Pushes(<<>>, <<>>) EXCEPT
                    !.area = (area_ha.mant * 10000) \div 10^(area_ha.dec)]
            ELSE Pushes(<<>>, <<>>)

AreaRule(idx, feature, geomType) ==
    IF geomType = Str("Polygon")
    THEN IF turfArea(feature).ok
         THEN [Pushes(<<>>, <<>>) EXCEPT !.area = turfArea(feature).value]
         ELSE Pushes(<<>>, <<[kind |-> "AreaFailed", index |-> idx]>>)
    ELSE Pushes(<<>>, <<>>)

\* mutant: the threshold is compared with > instead of >=
LargePlotRule_StrictlyAbove(idx, feature, geomType) ==
    IF geomType = Str("Point")
    THEN LET area_ha == Get(Get(feature, "properties"), "area_ha")
         IN IF ~Truthy(area_ha)
            THEN Pushes(<<>>, <<[kind |-> "PointWithoutArea", index |-> idx]>>)
            ELSE IF NumGE(area_ha, LARGE_PLOT_THRESHOLD_HA)
                    /\ area_ha # Num(FALSE, LARGE_PLOT_THRESHOLD_HA, 0)
            THEN [Pushes(<<[kind |-> "MustUsePolygon", index |-> idx,
                            area_ha |-> area_ha]>>, <<>>)
                    EXCEPT !.count = 1]
            ELSE Pushes(<<>>, <<>>)
    ELSE Pushes(<<>>, <<>>)

\* lines 112-121
LargePlotRule(idx, feature, geomType) ==
    IF geomType = Str("Point")
    THEN LET area_ha == Get(Get(feature, "properties"), "area_ha")
         IN IF ~Truthy(area_ha)
            THEN Pushes(<<>>, <<[kind |-> "PointWithoutArea", index |-> idx]>>)
            ELSE IF NumGE(area_ha, LARGE_PLOT_THRESHOLD_HA)
            THEN [Pushes(<<[kind |-> "MustUsePolygon", index |-> idx,
                            area_ha |-> area_ha]>>, <<>>)
                    EXCEPT !.count = 1]
            ELSE Pushes(<<>>, <<>>)
    ELSE Pushes(<<>>, <<>>)

\* mutant: a plot_id is never remembered
PlotIdRule_NeverRemembers(idx, plotId, seen) ==
    IF Truthy(plotId)
    THEN IF plotId \in seen
         THEN Pushes(<<[kind |-> "DuplicatePlotId", index |-> idx,
                        plot_id |-> plotId]>>, <<>>)
         ELSE Pushes(<<>>, <<>>)
    ELSE Pushes(<<>>, <<[kind |-> "MissingPlotId", index |-> idx]>>)

\* mutant: a missing plot_id is an error
PlotIdRule_MissingIsError(idx, plotId, seen) ==
    IF Truthy(plotId)
    THEN IF plotId \in seen
         THEN Pushes(<<[kind |-> "DuplicatePlotId", index |-> idx,
                        plot_id |-> plotId]>>, <<>>)
         ELSE [Pushes(<<>>, <<>>) EXCEPT !.ids = {plotId}]
    ELSE Pushes(<<[kind |-> "MissingPlotId", index |-> idx]>>, <<>>)

\* lines 123-133
PlotIdRule(idx, plotId, seen) ==
    IF Truthy(plotId)
    THEN IF plotId \in seen
         THEN Pushes(<<[kind |-> "DuplicatePlotId", index |-> idx,
                        plot_id |-> plotId]>>, <<>>)
         ELSE [Pushes(<<>>, <<>>) EXCEPT !.ids = {plotId}]
    ELSE Pushes(<<>>, <<[kind |-> "MissingPlotId", index |-> idx]>>)

\* lines 135-141
FeatureResult(idx, geomType, areaHa, plotId, coordPrecision) ==
    [index |-> idx, type |-> geomType, area_ha |-> areaHa, plot_id |-> plotId,
     coordinate_precision |-> coordPrecision]

\* lines 96-141: the checks that follow the computation of coordPrecision, in
\* the order of the code
RulesOf(acc, feature, idx, geomType, coordPrecision, plotId) ==
    LET precision == PrecisionRule(idx, coordPrecision)
        area == AreaRule(idx, feature, geomType)
        large == LargePlotRule(idx, feature, geomType)
        plot == PlotIdRule(idx, plotId, acc.plotIds)
    IN [errors |-> acc.errors \o precision.errors \o large.errors \o plot.errors,
        warnings |-> acc.warnings \o area.warnings \o large.warnings
                       \o plot.warnings,
        featureResults |->
            Append(acc.featureResults,
                   FeatureResult(idx, geomType, AreaHa(feature, geomType),
                                 plotId, coordPrecision)),
        totalAreaHa |-> acc.totalAreaHa + area.area,
        requiresPolygonCount |-> acc.requiresPolygonCount + large.count,
        plotIds |-> acc.plotIds \cup plot.ids]

\* line 95, which throws when the coordinates cannot be iterated
AfterPrecision(acc, feature, idx, geomType, coordPrecision) ==
    IF ~coordPrecision.ok THEN coordPrecision
    ELSE Ok(RulesOf(acc, feature, idx, geomType, coordPrecision.value,
                    Get(Get(feature, "properties"), "plot_id")))

\* lines 94-141: the checks of a feature whose geometry is a Point or a Polygon
CheckedFeature(acc, feature, idx, geomType) ==
    AfterPrecision(acc, feature, idx, geomType,
                   getMinCoordinatePrecision(Get(feature, "geometry")))

\* mutant: the plot_id of a feature without geometry is tracked all the same
ValidateFeature_TracksExcluded(acc, feature, idx) ==
    IF IsNullish(feature) THEN Threw("TypeError")
    ELSE IF Get(feature, "type") # Str("Feature")
    THEN Ok(PushError(acc, [kind |-> "NotAFeature", index |-> idx]))
    ELSE IF ~Truthy(Get(feature, "geometry"))
    THEN Ok([PushError(acc, [kind |-> "MissingGeometry", index |-> idx])
                EXCEPT !.plotIds =
                    @ \cup {Get(Get(feature, "properties"), "plot_id")}])
    ELSE LET geomType == Get(Get(feature, "geometry"), "type")
         IN IF geomType # Str("Point") /\ geomType # Str("Polygon")
            THEN Ok(PushError(acc, [kind |-> "GeometryType", index |-> idx,
                                    got |-> geomType]))
            ELSE CheckedFeature(acc, feature, idx, geomType)

\* lines 71-92: the checks that exclude a feature (continue), then the rest
ValidateFeature(acc, feature, idx) ==
    IF IsNullish(feature) THEN Threw("TypeError")
    ELSE IF Get(feature, "type") # Str("Feature")
    THEN Ok(PushError(acc, [kind |-> "NotAFeature", index |-> idx]))
    ELSE IF ~Truthy(Get(feature, "geometry"))
    THEN Ok(PushError(acc, [kind |-> "MissingGeometry", index |-> idx]))
    ELSE LET geomType == Get(Get(feature, "geometry"), "type")
         IN IF geomType # Str("Point") /\ geomType # Str("Polygon")
            THEN Ok(PushError(acc, [kind |-> "GeometryType", index |-> idx,
                                    got |-> geomType]))
            ELSE CheckedFeature(acc, feature, idx, geomType)

\* mutant: the length of the features array is not looked at
IsEmptyCollection_NoLengthCheck(fc) == ~Truthy(Get(fc, "features"))

\* line 55
IsEmptyCollection(fc) ==
    ~Truthy(Get(fc, "features")) \/ Len(Get(fc, "features").items) = 0

Acc == [errors |-> errors, warnings |-> warnings, featureResults |-> featureResults,
        totalAreaHa |-> totalAreaHa, requiresPolygonCount |-> requiresPolygonCount,
        plotIds |-> plotIds]

Features == featureCollection.features.items

\* no normalizeToFeatureCollection call of its own is under way
NormalizeIdle ==
    /\ geolocation = Undefined
    /\ normalizedGeo = NoResult
    /\ renormalized = NoResult

\* no computeGeolocationHash call of its own is under way
HashIdle ==
    /\ enrichedGeo = Undefined
    /\ geolocationHash = NoResult

\* no request for a Due Diligence Statement is under way
DdsIdle ==
    /\ metadata = Undefined
    /\ ddsPc = "idle"
    /\ ddsTotalAreaHa = 0
    /\ riskLevel = "unassigned"
    /\ mitigationMeasures = <<>>
    /\ response = NoResult

\* no request to routes/batch.ts is under way
RouteIdle ==
    /\ bodyLimit = 0
    /\ request = Undefined
    /\ routePc = "idle"
    /\ batchMetadata = Undefined
    /\ cid = NoResult
    /\ reply = NoResult

\* no concurrent calls are under way
ConcurrentIdle ==
    /\ arguments = <<>>
    /\ activations = <<>>

\* the contract is not deployed
ContractIdle ==
    /\ nextTokenId = 0
    /\ owners = <<>>
    /\ tokenURIs = <<>>
    /\ batches = <<>>
    /\ batchHistory = <<>>
    /\ roles = <<>>
    /\ receipts = <<>>
    /\ lastTransaction = NoResult
    /\ blockNumber = 0

\* no IoT request was ever made
IotIdle ==
    /\ iotDataBuffer = <<>>
    /\ arrays = <<>>
    /\ readingCount = 0
    /\ aggregates = <<>>
    /\ pushed = <<>>
    /\ iotReplies = <<>>
    /\ dataReply = 0

LaterIdle == ConcurrentIdle /\ ContractIdle /\ IotIdle

\* validateGeoJSON is called on its own
NoCaller == NormalizeIdle /\ HashIdle /\ DdsIdle /\ RouteIdle /\ LaterIdle

Init ==
    /\ NoCaller
    /\ input \in Inputs
    /\ pc = "call"
    /\ featureCollection = Undefined
    /\ i = 0
    /\ errors = <<>>
    /\ warnings = <<>>
    /\ featureResults = <<>>
    /\ totalAreaHa = 0
    /\ requiresPolygonCount = 0
    /\ plotIds = {}
    /\ result = NoResult

Return(report) ==
    /\ pc' = "returned"
    /\ result' = report

\* lines 28-37: the input is not an object
RejectNonObject ==
    /\ pc = "call"
    /\ ~Truthy(input) \/ ~TypeofObject(input)
    /\ Return(EarlyReport([kind |-> "InputNotObject"]))
    /\ UNCHANGED <<input, featureCollection, i, errors, warnings, featureResults,
                   totalAreaHa, requiresPolygonCount, plotIds>>
    /\ UNCHANGED callerVars

\* lines 42-53: normalization throws and the catch returns its message
RejectUnparseable ==
    /\ pc = "call"
    /\ Truthy(input) /\ TypeofObject(input)
    /\ ~normalizeToFeatureCollection(input).ok
    /\ Return(EarlyReport([kind |-> "Normalize",
                           message |-> normalizeToFeatureCollection(input).message]))
    /\ UNCHANGED <<input, featureCollection, i, errors, warnings, featureResults,
                   totalAreaHa, requiresPolygonCount, plotIds>>
    /\ UNCHANGED callerVars

\* lines 55-64: no feature
RejectEmpty ==
    /\ pc = "call"
    /\ Truthy(input) /\ TypeofObject(input)
    /\ normalizeToFeatureCollection(input).ok
    /\ IsEmptyCollection(normalizeToFeatureCollection(input).value)
    /\ featureCollection' = normalizeToFeatureCollection(input).value
    /\ Return(EarlyReport([kind |-> "EmptyCollection"]))
    /\ UNCHANGED <<input, i, errors, warnings, featureResults,
                   totalAreaHa, requiresPolygonCount, plotIds>>
    /\ UNCHANGED callerVars

\* lines 66-70: the loop is entered
EnterLoop ==
    /\ pc = "call"
    /\ Truthy(input) /\ TypeofObject(input)
    /\ normalizeToFeatureCollection(input).ok
    /\ ~IsEmptyCollection(normalizeToFeatureCollection(input).value)
    /\ featureCollection' = normalizeToFeatureCollection(input).value
    /\ pc' = "loop"
    /\ UNCHANGED <<input, i, errors, warnings, featureResults,
                   totalAreaHa, requiresPolygonCount, plotIds, result>>
    /\ UNCHANGED callerVars

\* the accumulators after an iteration that ran to its end
Accumulate(step) ==
    /\ step.ok
    /\ errors' = step.value.errors
    /\ warnings' = step.value.warnings
    /\ featureResults' = step.value.featureResults
    /\ totalAreaHa' = step.value.totalAreaHa
    /\ requiresPolygonCount' = step.value.requiresPolygonCount
    /\ plotIds' = step.value.plotIds

\* lines 70-142: one iteration of the loop
Iterate ==
    /\ pc = "loop"
    /\ i < Len(Features)
    /\ Accumulate(ValidateFeature(Acc, Features[i + 1], i))
    /\ i' = i + 1
    /\ UNCHANGED <<input, pc, featureCollection, result>>
    /\ UNCHANGED callerVars

\* an iteration throws a TypeError, which nothing in validateGeoJSON catches
IterateThrows ==
    /\ pc = "loop"
    /\ i < Len(Features)
    /\ ~ValidateFeature(Acc, Features[i + 1], i).ok
    /\ pc' = "threw"
    /\ UNCHANGED <<input, featureCollection, i, errors, warnings, featureResults,
                   totalAreaHa, requiresPolygonCount, plotIds, result>>
    /\ UNCHANGED callerVars

\* lines 144-151
Finish ==
    /\ pc = "loop"
    /\ i = Len(Features)
    /\ Return(FinalReport(Acc))
    /\ UNCHANGED <<input, featureCollection, i, errors, warnings, featureResults,
                   totalAreaHa, requiresPolygonCount, plotIds>>
    /\ UNCHANGED callerVars

Next ==
    \/ RejectNonObject
    \/ RejectUnparseable
    \/ RejectEmpty
    \/ EnterLoop
    \/ Iterate
    \/ IterateThrows
    \/ Finish

Spec == Init /\ [][Next]_vars

(***************************************************************************)
(* Properties of validateGeoJSON                                           *)
(***************************************************************************)
\* the iteration of index j ran to its end
Processed(j) == pc \in {"loop", "returned", "threw"} /\ j < i

Returned == pc = "returned"

\* the positions in a list of findings that cite index j, of one kind or of any
At(list, j) == {k \in 1..Len(list) : "index" \in DOMAIN list[k] /\ list[k].index = j}
KindAt(list, kind, j) == {k \in At(list, j) : list[k].kind = kind}
OfKind(list, kind) == {k \in 1..Len(list) : list[k].kind = kind}

\* the shape of an element of the features array
IsFeature(f) == f.t = "object" /\ Get(f, "type") = Str("Feature")
GeomTypeOf(f) == Get(Get(f, "geometry"), "type")
HasPointOrPolygon(f) ==
    Truthy(Get(f, "geometry")) /\ GeomTypeOf(f) \in {Str("Point"), Str("Polygon")}
ReachesRules(f) == IsFeature(f) /\ HasPointOrPolygon(f)
PlotIdOf(f) == Get(Get(f, "properties"), "plot_id")
DeclaredAreaOf(f) == Get(Get(f, "properties"), "area_ha")

\* C1: every returned report has valid = (errors is empty), whatever its
\* warnings are.
C1_ValidIffNoErrors ==
    Returned => (result.valid <=> Len(result.errors) = 0)

\* C1 witness: a report returned valid although it carries warnings.
C1_Witness ==
    Returned /\ result.valid /\ Len(result.warnings) > 0 /\ Len(result.errors) = 0

\* C2 (as claimed): validateGeoJSON never throws.
C2_NeverThrows == pc # "threw"

\* C3: a FeatureCollection whose features is empty or absent never enters the
\* loop and is returned invalid with exactly one top-level error, no warning,
\* no per-feature entry, total area 0 and polygon-required count 0.
IsCollection(v) == v.t = "object" /\ Get(v, "type") = Str("FeatureCollection")
HasNoFeatures(v) ==
    Get(v, "features") \in {Undefined, Null} \/ Get(v, "features") = Arr(<<>>)

C3_EmptyCollectionInvalid ==
    (IsCollection(input) /\ HasNoFeatures(input)) =>
        /\ pc \in {"call", "returned"}
        /\ i = 0 /\ errors = <<>> /\ warnings = <<>> /\ featureResults = <<>>
        /\ Returned =>
            /\ ~result.valid
            /\ Len(result.errors) = 1
            /\ "index" \notin DOMAIN result.errors[1]
            /\ result.warnings = <<>>
            /\ result.features = <<>>
            /\ result.total_area_ha = 0
            /\ result.requires_polygon_count = 0

\* C3 witness: an empty collection that carries other fields has been rejected.
C3_Witness ==
    /\ Returned
    /\ IsCollection(input) /\ Get(input, "features") = Arr(<<>>)
    /\ Truthy(Get(input, "geometry"))
    /\ result.errors = <<[kind |-> "EmptyCollection"]>>

\* the indices of the features that carry plot_id p, and the plot_ids carried
Carriers(p) == {j \in 0..(Len(Features) - 1) : PlotIdOf(Features[j + 1]) = p}
CarriedPlotIds ==
    {PlotIdOf(Features[j]) : j \in 1..Len(Features)} \ {Undefined, Null}
DuplicatesOf(list, p) ==
    {k \in OfKind(list, "DuplicatePlotId") : list[k].plot_id = p}
Later(S) == CHOOSE j \in S : \A h \in S : h <= j

\* C4 (as claimed): whenever exactly two features carry the same plot_id, the
\* report holds exactly one Duplicate plot_id error for it, citing the later
\* of the two, whatever else is wrong with either feature.
C4_OneDuplicateWhateverElse ==
    (Returned /\ featureCollection # Undefined) =>
        \A p \in CarriedPlotIds :
            Cardinality(Carriers(p)) = 2 =>
                /\ Cardinality(DuplicatesOf(result.errors, p)) = 1
                /\ \A k \in DuplicatesOf(result.errors, p) :
                       result.errors[k].index = Later(Carriers(p))

\* C4 (amended): when exactly two features carry the same non-empty plot_id
\* and both are Features with a Point or Polygon geometry, then once the loop
\* has passed the later one the error list holds exactly one Duplicate
\* plot_id error for it, citing the later index, and so does the report.
C4_OneDuplicateWhenBothChecked ==
    featureCollection # Undefined =>
        \A p \in CarriedPlotIds :
            ( /\ Truthy(p)
              /\ Cardinality(Carriers(p)) = 2
              /\ \A j \in Carriers(p) : ReachesRules(Features[j + 1])
              /\ Processed(Later(Carriers(p))) ) =>
                /\ Cardinality(DuplicatesOf(errors, p)) = 1
                /\ \A k \in DuplicatesOf(errors, p) :
                       errors[k].index = Later(Carriers(p))
                /\ Returned =>
                       /\ Cardinality(DuplicatesOf(result.errors, p)) = 1
                       /\ \A k \in DuplicatesOf(result.errors, p) :
                              result.errors[k].index = Later(Carriers(p))

\* C4 witness: a report for two checked features that share a plot_id, the
\* later of which has a second error of its own.
C4_Witness ==
    /\ Returned /\ featureCollection # Undefined
    /\ Len(Features) = 2
    /\ ReachesRules(Features[1]) /\ ReachesRules(Features[2])
    /\ PlotIdOf(Features[1]) = Str("P1") /\ PlotIdOf(Features[2]) = Str("P1")
    /\ KindAt(result.errors, "DuplicatePlotId", 1) # {}
    /\ KindAt(result.errors, "Precision", 1) # {}

\* C5: a processed Point feature with a declared area_ha >= 4 has exactly one
\* "must use Polygon geometry" error, with area_ha strictly between 0 and 4
\* neither that error nor the area warning, and with no area_ha the warning
\* only; requires_polygon_count is the number of those errors.
C5_LargePlotRule ==
    /\ \A j \in 0..(i - 1) :
         (Processed(j) /\ ReachesRules(Features[j + 1])
            /\ GeomTypeOf(Features[j + 1]) = Str("Point")) =>
           LET a == DeclaredAreaOf(Features[j + 1])
               e == Cardinality(KindAt(errors, "MustUsePolygon", j))
               w == Cardinality(KindAt(warnings, "PointWithoutArea", j))
           IN /\ (a.t = "number" /\ NumGE(a, LARGE_PLOT_THRESHOLD_HA))
                    => (e = 1 /\ w = 0)
              /\ (a.t = "number" /\ ~a.neg /\ a.mant > 0
                    /\ ~NumGE(a, LARGE_PLOT_THRESHOLD_HA))
                    => (e = 0 /\ w = 0)
              /\ a = Undefined => (e = 0 /\ w = 1)
    /\ requiresPolygonCount = Cardinality(OfKind(errors, "MustUsePolygon"))
    /\ Returned =>
         result.requires_polygon_count =
             Cardinality(OfKind(result.errors, "MustUsePolygon"))

\* C5 witness: a report that counts a Point of exactly 4 ha and lets a Point of
\* 3.999999 ha pass.
C5_Witness ==
    /\ Returned /\ featureCollection # Undefined
    /\ Len(Features) = 2
    /\ Features[1] = Feat(PointGood, Props(AreaAt, Str("P1")))
    /\ Features[2] = Feat(PointGood, Props(AreaBelow, Str("P2")))
    /\ result.requires_polygon_count = 1
    /\ Len(result.errors) = 1 /\ result.errors[1].kind = "MustUsePolygon"
    /\ result.warnings = <<>>

\* the entries of the per-feature list for index j
EntriesAt(j) == {k \in 1..Len(featureResults) : featureResults[k].index = j}

\* C6: a processed feature without a Point or Polygon geometry has exactly one
\* error and nothing else: no warning, no per-feature entry, no plot_id
\* remembered; every other processed feature has its entry under its own
\* index.
C6_ExcludedFeature ==
    /\ \A j \in 0..(i - 1) :
         (Processed(j) /\ Features[j + 1].t = "object"
            /\ ~HasPointOrPolygon(Features[j + 1])) =>
           /\ Cardinality(At(errors, j)) = 1
           /\ \A k \in At(errors, j) :
                errors[k].kind \in {"NotAFeature", "MissingGeometry", "GeometryType"}
           /\ At(warnings, j) = {}
           /\ EntriesAt(j) = {}
    /\ \A j \in 0..(i - 1) :
         (Processed(j) /\ ReachesRules(Features[j + 1])) =>
           /\ Cardinality(EntriesAt(j)) = 1
           /\ \A k \in EntriesAt(j) :
                featureResults[k].type = GeomTypeOf(Features[j + 1])
    /\ plotIds = {PlotIdOf(Features[j + 1]) :
                    j \in {h \in 0..(i - 1) :
                             /\ Processed(h) /\ ReachesRules(Features[h + 1])
                             /\ Truthy(PlotIdOf(Features[h + 1]))}}

\* C6 witness: a feature without geometry at index 0 and a checked feature with
\* the same plot_id at index 1, which alone has an entry and no duplicate error.
C6_Witness ==
    /\ Returned /\ featureCollection # Undefined
    /\ Len(Features) = 2
    /\ ~Truthy(Get(Features[1], "geometry")) /\ IsFeature(Features[1])
    /\ PlotIdOf(Features[1]) = Str("P1") /\ PlotIdOf(Features[2]) = Str("P1")
    /\ ReachesRules(Features[2])
    /\ Len(result.features) = 1 /\ result.features[1].index = 1
    /\ OfKind(result.errors, "DuplicatePlotId") = {}

\* the numeric components of a geometry whose coordinates could be iterated, and
\* the least number of decimal digits among them (0 when there is none)
Range(q) == {q[k] : k \in 1..Len(q)}
PositionsOf(g) ==
    IF Get(g, "type") = Str("Point") THEN {Get(g, "coordinates")}
    ELSE UNION {Range(ring.items) : ring \in Range(Get(g, "coordinates").items)}
ComponentsOf(g) == UNION {Range(pos.items) : pos \in PositionsOf(g)}
MinDecimalDigits(g) ==
    IF ComponentsOf(g) = {} THEN 0
    ELSE CHOOSE d \in {v.dec : v \in ComponentsOf(g)} :
             \A v \in ComponentsOf(g) : d <= v.dec

\* C7 (as claimed): the precision recorded for a checked feature is the least
\* number of decimal digits over the numeric components of its geometry (0
\* without coordinates), and the feature has a precision error iff that
\* number is below 6.
C7_PrecisionIsMinDecimalDigits ==
    \A j \in 0..(i - 1) :
        (Processed(j) /\ ReachesRules(Features[j + 1])) =>
            /\ \A k \in EntriesAt(j) :
                 featureResults[k].coordinate_precision =
                     MinDecimalDigits(Get(Features[j + 1], "geometry"))
            /\ KindAt(errors, "Precision", j) # {}
                 <=> MinDecimalDigits(Get(Features[j + 1], "geometry"))
                       < MIN_COORDINATE_PRECISION

\* what the other rules find for a checked feature: nothing
PassesOtherRules(f) ==
    /\ ReachesRules(f)
    /\ getMinCoordinatePrecision(Get(f, "geometry")).ok
    /\ getMinCoordinatePrecision(Get(f, "geometry")).value >= MIN_COORDINATE_PRECISION
    /\ GeomTypeOf(f) = Str("Polygon") => turfArea(f).ok
    /\ GeomTypeOf(f) = Str("Point") =>
         /\ Truthy(DeclaredAreaOf(f))
         /\ ~NumGE(DeclaredAreaOf(f), LARGE_PLOT_THRESHOLD_HA)

\* C8: a processed feature that passes every other rule and has no plot_id has
\* exactly one warning, the missing plot_id, and no error; a report of a
\* collection of such features only is valid.
C8_MissingPlotIdIsWarning ==
    /\ \A j \in 0..(i - 1) :
         (Processed(j) /\ PassesOtherRules(Features[j + 1])
            /\ ~Truthy(PlotIdOf(Features[j + 1]))) =>
           /\ Cardinality(At(warnings, j)) = 1
           /\ Cardinality(KindAt(warnings, "MissingPlotId", j)) = 1
           /\ At(errors, j) = {}
    /\ (Returned /\ featureCollection # Undefined /\ Len(Features) > 0
          /\ \A j \in 1..Len(Features) :
               PassesOtherRules(Features[j]) /\ ~Truthy(PlotIdOf(Features[j]))) =>
           /\ result.valid
           /\ Len(result.warnings) = Len(Features)

\* C8 witness: a valid report whose two warnings are the missing plot_ids of a
\* Point and of a Polygon.
C8_Witness ==
    /\ Returned /\ featureCollection # Undefined
    /\ Len(Features) = 2
    /\ GeomTypeOf(Features[1]) = Str("Point")
    /\ GeomTypeOf(Features[2]) = Str("Polygon")
    /\ result.valid
    /\ Len(result.warnings) = 2
    /\ \A k \in 1..2 : result.warnings[k].kind = "MissingPlotId"

\* C9: a processed Polygon feature whose area computation fails has exactly
\* one area warning and no error but those of the precision and plot_id
\* rules; its plot_id check has run and its per-feature entry has no area.
\* The total area is the sum over the other polygons, and a report in which
\* nothing but area computations failed is valid.
RECURSIVE SumPolygonAreas(_)
SumPolygonAreas(n) ==
    IF n = 0 THEN 0
    ELSE SumPolygonAreas(n - 1)
         + (IF /\ ReachesRules(Features[n])
               /\ GeomTypeOf(Features[n]) = Str("Polygon")
               /\ turfArea(Features[n]).ok
            THEN turfArea(Features[n]).value ELSE 0)

\* a checked feature in which only the area computation may fail
OnlyAreaMayFail(f) ==
    /\ ReachesRules(f)
    /\ getMinCoordinatePrecision(Get(f, "geometry")).ok
    /\ getMinCoordinatePrecision(Get(f, "geometry")).value >= MIN_COORDINATE_PRECISION
    /\ Truthy(PlotIdOf(f))
    /\ GeomTypeOf(f) = Str("Point") =>
         /\ Truthy(DeclaredAreaOf(f))
         /\ ~NumGE(DeclaredAreaOf(f), LARGE_PLOT_THRESHOLD_HA)

C9_AreaFailureIsWarning ==
    /\ \A j \in 0..(i - 1) :
         (Processed(j) /\ ReachesRules(Features[j + 1])
            /\ GeomTypeOf(Features[j + 1]) = Str("Polygon")
            /\ ~turfArea(Features[j + 1]).ok) =>
           /\ Cardinality(KindAt(warnings, "AreaFailed", j)) = 1
           /\ \A k \in At(errors, j) :
                errors[k].kind \in {"Precision", "DuplicatePlotId"}
           /\ \/ KindAt(warnings, "MissingPlotId", j) # {}
              \/ KindAt(errors, "DuplicatePlotId", j) # {}
              \/ PlotIdOf(Features[j + 1]) \in plotIds
           /\ Cardinality(EntriesAt(j)) = 1
           /\ \A k \in EntriesAt(j) : featureResults[k].area_ha = Undefined
           /\ totalAreaHa = SumPolygonAreas(i)
    /\ (Returned /\ featureCollection # Undefined /\ Len(Features) > 0
          /\ (\A j \in 1..Len(Features) : OnlyAreaMayFail(Features[j]))
          /\ (\A j, h \in 1..Len(Features) :
                 j # h => PlotIdOf(Features[j]) # PlotIdOf(Features[h]))) =>
           /\ result.valid
           /\ result.errors = <<>>

\* C9 witness: a valid report for a polygon whose area failed and one whose
\* area was computed: the first has the warning and an entry, the total is the
\* second's.
C9_Witness ==
    /\ Returned /\ featureCollection # Undefined
    /\ Len(Features) = 2
    /\ Get(Features[1], "geometry") = PolyDegenerate
    /\ Get(Features[2], "geometry") = PolyGood
    /\ KindAt(result.warnings, "AreaFailed", 0) # {}
    /\ Len(result.features) = 2
    /\ result.features[1].area_ha = Undefined
    /\ result.total_area_ha = 2500
    /\ result.valid

\* the thousandth of a hectare nearest to a total in m2 (halves go up)
NearestThousandth(m2) ==
    CHOOSE r \in 0..(m2 \div 10 + 1) : 10 * r - 5 <= m2 /\ m2 < 10 * r + 5

\* C10: the running total is the sum of the computed areas of the processed
\* Polygon features, to which no Point contributes, and the report's
\* total_area_ha is that sum rounded to 3 decimals.
C10_TotalIsPolygonSum ==
    /\ (pc \in {"loop", "threw"} \/ (Returned /\ featureCollection # Undefined))
         => totalAreaHa = SumPolygonAreas(i)
    /\ Returned =>
         result.total_area_ha =
             NearestThousandth(IF featureCollection = Undefined THEN 0
                               ELSE SumPolygonAreas(Len(Features)))

\* C10 witness: a report for a Point that declares 3.999999 ha and a Polygon of
\* 1.5004 ha, whose total is 1.500 ha.
C10_Witness ==
    /\ Returned /\ featureCollection # Undefined
    /\ Len(Features) = 2
    /\ GeomTypeOf(Features[1]) = Str("Point")
    /\ DeclaredAreaOf(Features[1]) = AreaBelow
    /\ Get(Features[2], "geometry") = PolyOther
    /\ result.total_area_ha = 1500

(***************************************************************************)
(* Part 2: normalizeToFeatureCollection called on its own                  *)
(*         (geojson.service.ts lines 157-190; batch.ts line 56 calls it on *)
(*         the request's geolocation, and validateGeoJSON, line 43, calls  *)
(*         it again on the collection it returned).                        *)
(***************************************************************************)
\* no validateGeoJSON call is under way
ValidatorIdle ==
    /\ input = Undefined
    /\ pc = "idle"
    /\ featureCollection = Undefined
    /\ i = 0
    /\ errors = <<>>
    /\ warnings = <<>>
    /\ featureResults = <<>>
    /\ totalAreaHa = 0
    /\ requiresPolygonCount = 0
    /\ plotIds = {}
    /\ result = NoResult

EmptyObject == [t |-> "object"]

\* a Feature without a properties member
FeatNoProps(geometry) ==
    [t |-> "object", type |-> Str("Feature"), geometry |-> geometry]

Collection(fs) ==
    [t |-> "object", type |-> Str("FeatureCollection"), features |-> Arr(fs)]

\* every value normalizeToFeatureCollection is called with in the model
NormalizeInputs ==
    \* not an object
    {Undefined, Null, Num(FALSE, 0, 0), Num(FALSE, 5, 0), Str("geojson"), Str("")}
    \* a FeatureCollection of no or one element, of two Features
    \cup {Collection(fs) : fs \in SeqsUpTo(Elements, 1)}
    \cup {Collection(<<Feat(g, EmptyObject), Feat(PointGood, Null)>>) : g \in Geometries}
    \* a FeatureCollection without an array of features, or with other members
    \cup {[t |-> "object", type |-> Str("FeatureCollection")],
          [t |-> "object", type |-> Str("FeatureCollection"), features |-> Null],
          [t |-> "object", type |-> Str("FeatureCollection"), features |-> Str("none"),
           geometry |-> PointGood],
          [t |-> "object", type |-> Str("FeatureCollection"), features |-> EmptyObject,
           coordinates |-> Arr(<<>>)],
          [t |-> "object", type |-> Str("FeatureCollection"), features |-> Arr(<<>>),
           geometry |-> PointGood, properties |-> Props(AreaAbove, Str("P1"))]}
    \* a Feature: with each geometry and no, null or empty properties, with
    \* properties, without a geometry, with a falsy geometry
    \cup {Feat(g, p) : g \in Geometries, p \in {EmptyObject, Null}}
    \cup {FeatNoProps(g) : g \in Geometries \cup {Null, Num(FALSE, 0, 0), Str("")}}
    \cup {e \in Elements : e.t = "object"}
    \cup {[t |-> "object", type |-> Str("Feature")],
          [t |-> "object", type |-> Str("Feature"), features |-> Arr(<<>>)]}
    \* a bare geometry, any other object, an array
    \cup Geometries
    \cup {EmptyObject, Arr(<<>>), Arr(<<PointGood>>),
          [t |-> "object", type |-> Num(FALSE, 5, 0)],
          [t |-> "object", type |-> Str("GeometryCollection"), geometries |-> Arr(<<>>)],
          [t |-> "object", type |-> Str("point"), coordinates |-> Arr(<<>>)]}

InitNormalize ==
    /\ ValidatorIdle
    /\ LaterIdle
    /\ RouteIdle
    /\ HashIdle
    /\ DdsIdle
    /\ geolocation \in NormalizeInputs
    /\ normalizedGeo = NoResult
    /\ renormalized = NoResult

\* the call returns a collection
NormalizeReturns ==
    /\ normalizedGeo = NoResult
    /\ normalizeToFeatureCollection(geolocation).ok
    /\ normalizedGeo' = normalizeToFeatureCollection(geolocation)
    /\ UNCHANGED <<exceptNormalize, geolocation, renormalized>>

\* the call throws
NormalizeThrows ==
    /\ normalizedGeo = NoResult
    /\ ~normalizeToFeatureCollection(geolocation).ok
    /\ normalizedGeo' = normalizeToFeatureCollection(geolocation)
    /\ UNCHANGED <<exceptNormalize, geolocation, renormalized>>

\* the returned collection is normalized again (geojson.service.ts line 43,
\* after batch.ts line 56)
NormalizeAgain ==
    /\ normalizedGeo # NoResult
    /\ normalizedGeo.ok
    /\ renormalized = NoResult
    /\ renormalized' = normalizeToFeatureCollection(normalizedGeo.value)
    /\ UNCHANGED <<exceptNormalize, geolocation, normalizedGeo>>

NextNormalize ==
    \/ NormalizeReturns
    \/ NormalizeThrows
    \/ NormalizeAgain

NormalizeSpec == InitNormalize /\ [][NextNormalize]_allVars

(***************************************************************************)
(* Properties of normalizeToFeatureCollection                              *)
(***************************************************************************)
Normalized == normalizedGeo # NoResult

\* the shapes of an input, read off the input alone
IsPlainObject(v) == v.t = "object"
HasType(v, name) == IsPlainObject(v) /\ "type" \in DOMAIN v /\ v.type = Str(name)
ShapedAsCollection(v) ==
    HasType(v, "FeatureCollection") /\ "features" \in DOMAIN v /\ v.features.t = "array"
ShapedAsFeature(v) ==
    HasType(v, "Feature") /\ "geometry" \in DOMAIN v /\ Truthy(v.geometry)
ShapedAsGeometry(v) == HasType(v, "Point") \/ HasType(v, "Polygon")

\* a collection that has the two members type and features and no other
IsFreshCollectionOf(c, elements) ==
    /\ c.t = "object"
    /\ DOMAIN c = {"t", "type", "features"}
    /\ c.type = Str("FeatureCollection")
    /\ c.features = Arr(elements)

\* C11: normalizeToFeatureCollection returns a value shaped as a
\* FeatureCollection (type FeatureCollection, features an array) unchanged;
\* otherwise it wraps an object of type Feature with a geometry as the single
\* element of a new collection; otherwise it wraps an object of type Point or
\* Polygon, whatever its coordinates, as a Feature with empty properties in a
\* new collection; every other value makes it throw, and nothing is returned.
C11_NormalizeByShape ==
    Normalized =>
        IF ShapedAsCollection(geolocation)
        THEN normalizedGeo.ok /\ normalizedGeo.value = geolocation
        ELSE IF ShapedAsFeature(geolocation)
        THEN normalizedGeo.ok
             /\ IsFreshCollectionOf(normalizedGeo.value, <<geolocation>>)
        ELSE IF ShapedAsGeometry(geolocation)
        THEN /\ normalizedGeo.ok
             /\ IsFreshCollectionOf(normalizedGeo.value,
                    <<[t |-> "object", type |-> Str("Feature"),
                       geometry |-> geolocation, properties |-> EmptyObject]>>)
        ELSE ~normalizedGeo.ok /\ DOMAIN normalizedGeo = {"ok", "message"}

\* C11 witness: a Polygon without coordinates was wrapped as a Feature with
\* empty properties (no geometry validity check).
C11_Witness ==
    /\ geolocation = PolyNoCoords
    /\ Normalized /\ normalizedGeo.ok
    /\ normalizedGeo.value.features.items[1].geometry = PolyNoCoords
    /\ normalizedGeo.value.features.items[1].properties = EmptyObject

\* the Point and Polygon geometries of the model, well-formed or not
PointsAndPolygons == {g \in Geometries : ShapedAsGeometry(g)}

\* a Feature that carries geometry g and no property: its properties member
\* is an empty object, is null (RFC 7946, 3.2) or is absent
PropertylessFeaturesOf(g) == {Feat(g, EmptyObject), Feat(g, Null), FeatNoProps(g)}

\* C12 as stated: for a geometry g, the bare g, a Feature wrapping g and the
\* one-element collection of that Feature normalize to the identical
\* collection, and normalizing the result again leaves it unchanged.
C12_SameCollectionForEveryShape ==
    \A g \in PointsAndPolygons : \A f \in PropertylessFeaturesOf(g) :
        (Normalized /\ geolocation \in {g, f, Collection(<<f>>)}) =>
            /\ normalizedGeo = normalizeToFeatureCollection(g)
            /\ renormalized # NoResult => renormalized = normalizedGeo

\* C12 amended: the three shapes normalize to the identical collection when
\* the Feature is the one with an empty properties object; and whatever was
\* returned by the normalizer is returned unchanged when normalized again.
C12_SameCollectionForCanonicalFeature ==
    /\ \A g \in PointsAndPolygons :
        (Normalized /\ geolocation \in {g, Feat(g, EmptyObject),
                                        Collection(<<Feat(g, EmptyObject)>>)}) =>
            /\ normalizedGeo.ok
            /\ normalizedGeo.value = Collection(<<Feat(g, EmptyObject)>>)
    /\ renormalized # NoResult =>
            /\ renormalized.ok
            /\ renormalized = normalizedGeo

\* C12 witness: a bare Polygon was normalized to the collection of its
\* Feature, and normalizing that collection again returned it unchanged.
C12_Witness ==
    /\ geolocation = PolyGood
    /\ Normalized /\ normalizedGeo.ok
    /\ normalizedGeo.value = Collection(<<Feat(PolyGood, EmptyObject)>>)
    /\ renormalized = normalizedGeo

(***************************************************************************)
(* Part 3: computeGeolocationHash (geojson.service.ts lines 284-287)       *)
(*                                                                         *)
(* JSON.stringify writes the own properties of an object in the order in   *)
(* which they were inserted, so here an object is the list of its members  *)
(* in that order: [t |-> "object", members |-> <<<<key, value>>, ...>>].   *)
(* The serialization is a list of tokens.  keccak256 is taken to be free   *)
(* of collisions: a digest is the record of the text it was computed from. *)
(***************************************************************************)
Members(ms) == [t |-> "object", members |-> ms]

\* the ways of inserting a set of members into an object
Orderings(S) ==
    {Members(ms) : ms \in {q \in [1..Cardinality(S) -> S] :
                              \A a, b \in DOMAIN q : a # b => q[a] # q[b]}}

Quoted(text) == <<"\"", text, "\"">>

RECURSIVE JSONStringify(_)
RECURSIVE StringifyItems(_)
RECURSIVE StringifyMembers(_, _)

\* the elements of an array, undefined written as null
StringifyItems(items) ==
    IF items = <<>> THEN <<>>
    ELSE (IF Head(items).t = "undefined" THEN <<"null">> ELSE JSONStringify(Head(items)))
         \o (IF Len(items) > 1 THEN <<",">> ELSE <<>>)
         \o StringifyItems(Tail(items))

\* the members of an object in insertion order, an undefined one left out
StringifyMembers(ms, first) ==
    IF ms = <<>> THEN <<>>
    ELSE IF Head(ms)[2].t = "undefined" THEN StringifyMembers(Tail(ms), first)
    ELSE (IF first THEN <<>> ELSE <<",">>)
         \o Quoted(Head(ms)[1]) \o <<":">> \o JSONStringify(Head(ms)[2])
         \o StringifyMembers(Tail(ms), FALSE)

JSONStringify(v) ==
    CASE v.t = "null" -> <<"null">>
      [] v.t = "number" -> NumberToString(v)
      [] v.t = "string" -> Quoted(v.s)
      [] v.t = "array" -> <<"[">> \o StringifyItems(v.items) \o <<"]">>
      [] v.t = "object" -> <<"{">> \o StringifyMembers(v.members, TRUE) \o <<"}">>

keccak256(bytes) == [keccak256 |-> bytes]

\* lines 284-287
computeGeolocationHash(fc) == keccak256(JSONStringify(fc))

\* The collections of the model: one Feature, or none, with the members of
\* every object in every insertion order.
HashedGeometries ==
    UNION {Orderings({<<"type", Str("Point")>>, <<"coordinates", pos>>}) :
             pos \in {PosA, PosInt}}
HashedProperties ==
    Orderings({<<"plot_id", Str("P1")>>, <<"area_ha", AreaBelow>>})
    \cup {Members(<<>>), Members(<<<<"plot_id", Str("P1")>>>>),
          Members(<<<<"plot_id", Str("P1")>>, <<"farm_id", Undefined>>>>)}
HashedFeatures ==
    UNION {Orderings({<<"type", Str("Feature")>>, <<"geometry", g>>,
                      <<"properties", p>>}) :
             g \in HashedGeometries, p \in HashedProperties}
HashedCollections ==
    UNION {Orderings({<<"type", Str("FeatureCollection")>>,
                      <<"features", Arr(fs)>>}) :
             fs \in {<<>>} \cup {<<f>> : f \in HashedFeatures}}

InitHash ==
    /\ ValidatorIdle
    /\ LaterIdle
    /\ RouteIdle
    /\ NormalizeIdle
    /\ DdsIdle
    /\ enrichedGeo \in HashedCollections
    /\ geolocationHash = NoResult

ComputeGeolocationHash ==
    /\ geolocationHash = NoResult
    /\ geolocationHash' = computeGeolocationHash(enrichedGeo)
    /\ UNCHANGED <<exceptHash, enrichedGeo>>

NextHash == ComputeGeolocationHash

HashSpec == InitHash /\ [][NextHash]_allVars

(***************************************************************************)
(* Properties of computeGeolocationHash                                    *)
(***************************************************************************)
\* the logical content of a value: the key/value pairs of an object without
\* their insertion order (a member that is undefined is no member of the
\* JSON value), the elements of an array in their order
RECURSIVE Content(_)
Content(v) ==
    CASE v.t = "object" ->
           [t |-> "object",
            pairs |-> {<<v.members[k][1], Content(v.members[k][2])>> :
                         k \in {h \in DOMAIN v.members : v.members[h][2].t # "undefined"}}]
      [] v.t = "array" ->
           [t |-> "array", items |-> [k \in DOMAIN v.items |-> Content(v.items[k])]]
      [] OTHER -> v

Hashed == geolocationHash # NoResult

\* C13: two collections with the same logical content (the same features in
\* the same order, the same key/value pairs), whatever the insertion order
\* of their keys, have the same digest.
C13_SameContentSameDigest ==
    Hashed =>
        \A other \in HashedCollections :
            Content(other) = Content(enrichedGeo) =>
                computeGeolocationHash(other) = geolocationHash

(***************************************************************************)
(* Part 4: the Due Diligence Statement                                     *)
(*         GET /generate/:tokenId, buildDueDiligenceStatement and          *)
(*         calculateRiskAssessment (the dds routes, kept in                *)
(*         frontend/src/components/Layout.tsx, lines 427-674).             *)
(***************************************************************************)
Bool(b) == [t |-> "boolean", b |-> b]

\* The geolocations a stored batch may carry: collections of these elements
RiskElements ==
    {Feat(PointGood, Props(AreaBelow, Str("P1"))),     \* valid
     Feat(PointGood, Props(AreaBelow, Undefined)),     \* valid, no plot_id
     Feat(PolyGood, Props(Undefined, Str("P2"))),      \* valid
     Feat(PointLow, Props(AreaAbove, Undefined)),      \* invalid, no plot_id
     Feat(PointNoCoords, Props(Undefined, Str("P1"))), \* validateGeoJSON throws
     Feat(PolyDegenerate, Props(Undefined, Undefined)),\* turf.area throws
     Feat(LineString, Props(AreaBelow, Str("P3"))),    \* neither Point nor Polygon
     Null}                                             \* f.properties throws

RiskGeolocations ==
    {Collection(fs) : fs \in SeqsUpTo(RiskElements, MaxFeatures)}
    \cup {[t |-> "object", type |-> Str("FeatureCollection")], Undefined}

LegalityDocument ==
    [t |-> "object", type |-> Str("land_tenure"), issuer |-> Str("Ministry"),
     document_reference |-> Str("LT-1")]

\* Partial<BatchMetadata>: what IPFS returned, {} when the fetch failed
Metadatas ==
    {[t |-> "object", geolocation |-> g, deforestation_check |-> d,
      legality_documents |-> l, quantity_net_mass_kg |-> q,
      geolocation_hash |-> Str("0xabc")] :
        g \in RiskGeolocations,
        d \in {Undefined, [t |-> "object", status |-> Bool(TRUE)],
               [t |-> "object", status |-> Bool(FALSE)],
               [t |-> "object", status |-> Str("true")]},
        l \in {Undefined, Arr(<<>>), Arr(<<LegalityDocument>>)},
        q \in {Undefined, Num(FALSE, 0, 0), Num(FALSE, 500, 0)}}

\* lines 519-522: metadata.geolocation || { type: 'FeatureCollection', features: [] }
GeolocationOf(md) ==
    IF Truthy(Get(md, "geolocation")) THEN Get(md, "geolocation") ELSE Collection(<<>>)

\* a number of hectares in millionths of a hectare (at most 6 decimals)
MicroHa(v) == v.mant * 10^(6 - v.dec)

\* calculateTotalArea, geojson.service.ts lines 266-279: [ok, value] with the
\* total in millionths of a hectare before the rounding of line 278
AddArea(total, area) == IF ~area.ok THEN area ELSE Ok(total + 100 * area.value)

\* mutant: only the Polygon features count, as in validateGeoJSON
AreaOfFeature_PolygonsOnly(total, feature) ==
    IF IsNullish(feature) \/ IsNullish(Get(feature, "geometry"))
    THEN Threw("TypeError")
    ELSE IF Get(Get(feature, "geometry"), "type") = Str("Polygon")
    THEN AddArea(total, turfArea(feature))
    ELSE Ok(total)

AreaOfFeature(total, feature) ==
    IF IsNullish(feature) \/ IsNullish(Get(feature, "geometry"))
    THEN Threw("TypeError")
    ELSE IF Get(Get(feature, "geometry"), "type") = Str("Polygon")
    THEN AddArea(total, turfArea(feature))
    ELSE IF Truthy(Get(Get(feature, "properties"), "area_ha"))
    THEN Ok(total + MicroHa(Get(Get(feature, "properties"), "area_ha")))
    ELSE Ok(total)

RECURSIVE TotalFrom(_, _)
RestOfTotal(rest, sofar) == IF ~sofar.ok THEN sofar ELSE TotalFrom(rest, sofar.value)

TotalFrom(features, total) ==
    IF features = <<>> THEN Ok(total)
    ELSE RestOfTotal(Tail(features), AreaOfFeature(total, Head(features)))

\* Math.round(total * 1000) / 1000, in thousandths of a hectare
RoundTotal(total) == IF ~total.ok THEN total ELSE Ok((total.value + 500) \div 1000)

calculateTotalArea(fc) ==
    IF Get(fc, "features").t # "array" THEN Threw("TypeError")
    ELSE RoundTotal(TotalFrom(Get(fc, "features").items, 0))

\* line 526
PlotCount(fc) ==
    IF Get(fc, "features").t = "array" THEN Len(Get(fc, "features").items) ELSE 0

\* line 529: metadata.deforestation_check?.status === true
DeforestationFree(md) == Get(Get(md, "deforestation_check"), "status") = Bool(TRUE)

\* lines 532-533: (metadata.legality_documents?.length || 0) > 0
LegalityCompliant(md) ==
    /\ Get(md, "legality_documents").t = "array"
    /\ Len(Get(md, "legality_documents").items) > 0

\* line 636: geolocation.features && geolocation.features.length > 0
HasGeolocation(fc) ==
    /\ Get(fc, "features").t = "array"
    /\ Len(Get(fc, "features").items) > 0

\* line 637: geolocation.features?.every(f => f.properties?.plot_id); every
\* stops at the first element without a plot_id, f.properties throws on a
\* null element, and the result is undefined (falsy) without features
RECURSIVE EveryHasPlotId(_)
EveryHasPlotId(items) ==
    IF items = <<>> THEN Ok(TRUE)
    ELSE IF IsNullish(Head(items)) THEN Threw("TypeError")
    ELSE IF ~Truthy(Get(Get(Head(items), "properties"), "plot_id")) THEN Ok(FALSE)
    ELSE EveryHasPlotId(Tail(items))

AllPlotsHaveIds(fc) ==
    IF Get(fc, "features").t # "array" THEN Ok(FALSE)
    ELSE EveryHasPlotId(Get(fc, "features").items)

\* calculateRiskAssessment, lines 627-674.  Each rule maps the level and the
\* measures [riskLevel, mitigationMeasures] to their next values.
Measure(name) == [measure |-> name]

Escalate(a, level, m) ==
    [riskLevel |-> level, mitigationMeasures |-> Append(a.mitigationMeasures, m)]

\* lines 641-647
RiskGeolocation(a, hasGeolocation, validation) ==
    IF ~hasGeolocation
    THEN Escalate(a, "non-negligible", Measure("Provide plot-level geolocation data"))
    ELSE IF ~validation.valid
    THEN Escalate(a, "non-negligible",
                  [measure |-> "Fix geolocation validation errors",
                   errors |-> validation.errors])
    ELSE a

\* lines 649-652
RiskDeforestation(a, deforestationFree) ==
    IF ~deforestationFree
    THEN Escalate(a, "non-negligible", Measure("Verify deforestation-free status"))
    ELSE a

\* lines 654-657
RiskLegality(a, legalityCompliant) ==
    IF ~legalityCompliant
    THEN Escalate(a, "non-negligible", Measure("Upload required legality documents"))
    ELSE a

\* mutant: the plot_id rule sets the level to low whatever it was
RiskPlotIds_AssignsLow(a, allPlotsHaveIds, hasGeolocation) ==
    IF ~allPlotsHaveIds /\ hasGeolocation
    THEN Escalate(a, "low", Measure("Assign unique plot_id to all geolocation features"))
    ELSE a

\* mutant: the plot_id rule adds its measure only when it raises the level
RiskPlotIds_SilentWhenSevere(a, allPlotsHaveIds, hasGeolocation) ==
    IF ~allPlotsHaveIds /\ hasGeolocation /\ a.riskLevel = "negligible"
    THEN Escalate(a, "low", Measure("Assign unique plot_id to all geolocation features"))
    ELSE a

\* lines 659-662
RiskPlotIds(a, allPlotsHaveIds, hasGeolocation) ==
    IF ~allPlotsHaveIds /\ hasGeolocation
    THEN Escalate(a, IF a.riskLevel = "negligible" THEN "low" ELSE a.riskLevel,
                  Measure("Assign unique plot_id to all geolocation features"))
    ELSE a

\* mutant: the quantity rule adds its measure and leaves the level as it is
RiskQuantity_MeasureOnly(a, quantity) ==
    IF ~Truthy(quantity)
    THEN Escalate(a, a.riskLevel, Measure("Specify net mass quantity in kg"))
    ELSE a

\* lines 664-667: !metadata.quantity_net_mass_kg
RiskQuantity(a, quantity) ==
    IF ~Truthy(quantity)
    THEN Escalate(a, IF a.riskLevel = "negligible" THEN "low" ELSE a.riskLevel,
                  Measure("Specify net mass quantity in kg"))
    ELSE a

\* lines 669-673
RiskAssessmentOf(a) ==
    [risk_level |-> a.riskLevel,
     mitigation_measures |-> IF Len(a.mitigationMeasures) > 0
                             THEN Arr(a.mitigationMeasures) ELSE Undefined]

Assessment == [riskLevel |-> riskLevel, mitigationMeasures |-> mitigationMeasures]

Assess(a) ==
    /\ riskLevel' = a.riskLevel
    /\ mitigationMeasures' = a.mitigationMeasures

Respond(r) ==
    /\ response' = r
    /\ ddsPc' = "responded"

Failure(status) == [status |-> status]

\* lines 567-621: the Statement, with the members the model follows
Statement(md, fc, total, assessment) ==
    [status |-> 200,
     dds |-> [geolocation |-> fc,
              total_area_ha |-> total,
              plot_count |-> PlotCount(fc),
              deforestation_free |-> DeforestationFree(md),
              legality_compliant |-> LegalityCompliant(md),
              risk_assessment |-> RiskAssessmentOf(assessment),
              ipfs_metadata_hash |-> IF Truthy(Get(md, "geolocation_hash"))
                                     THEN Get(md, "geolocation_hash") ELSE Str("")]]

InitDds ==
    /\ ValidatorIdle
    /\ LaterIdle
    /\ RouteIdle
    /\ HashIdle
    /\ geolocation = Undefined
    /\ normalizedGeo = NoResult
    /\ renormalized = NoResult
    /\ metadata \in Metadatas
    /\ ddsPc = "request"
    /\ ddsTotalAreaHa = 0
    /\ riskLevel = "unassigned"
    /\ mitigationMeasures = <<>>
    /\ response = NoResult

\* lines 429-433: the token id is not a number
RespondInvalidTokenId ==
    /\ ddsPc = "request"
    /\ Respond(Failure(400))
    /\ UNCHANGED <<vars, exceptDds, geolocation, metadata, ddsTotalAreaHa,
                   riskLevel, mitigationMeasures>>

\* lines 436-440: the chain holds no such batch
RespondBatchNotFound ==
    /\ ddsPc = "request"
    /\ Respond(Failure(404))
    /\ UNCHANGED <<vars, exceptDds, geolocation, metadata, ddsTotalAreaHa,
                   riskLevel, mitigationMeasures>>

\* lines 442-454 and 513-526: the metadata is fetched and
\* buildDueDiligenceStatement runs up to the call of calculateRiskAssessment
BuildStatement ==
    /\ ddsPc = "request"
    /\ calculateTotalArea(GeolocationOf(metadata)).ok
    /\ geolocation' = GeolocationOf(metadata)
    /\ ddsTotalAreaHa' = calculateTotalArea(GeolocationOf(metadata)).value
    /\ ddsPc' = "assess"
    /\ UNCHANGED <<vars, exceptDds, metadata, riskLevel, mitigationMeasures, response>>

\* calculateTotalArea throws (line 525); the catch of the route answers 500
\* (lines 462-465)
BuildThrows ==
    /\ ddsPc = "request"
    /\ ~calculateTotalArea(GeolocationOf(metadata)).ok
    /\ geolocation' = GeolocationOf(metadata)
    /\ Respond(Failure(500))
    /\ UNCHANGED <<vars, exceptDds, metadata, ddsTotalAreaHa, riskLevel,
                   mitigationMeasures>>

\* lines 633-638: calculateRiskAssessment starts and calls validateGeoJSON.
\* Line 637 throws on a null element, on which line 525 has thrown before.
EnterAssessment ==
    /\ ddsPc = "assess"
    /\ AllPlotsHaveIds(geolocation).ok
    /\ riskLevel' = "negligible"
    /\ mitigationMeasures' = <<>>
    /\ input' = geolocation
    /\ pc' = "call"
    /\ ddsPc' = "validate"
    /\ UNCHANGED <<featureCollection, i, errors, warnings, featureResults,
                   totalAreaHa, requiresPolygonCount, plotIds, result,
                   exceptDds, geolocation, metadata, ddsTotalAreaHa, response>>

\* line 638: validateGeoJSON throws; the route answers 500
ValidationThrows ==
    /\ ddsPc = "validate"
    /\ pc = "threw"
    /\ Respond(Failure(500))
    /\ UNCHANGED <<vars, exceptDds, geolocation, metadata, ddsTotalAreaHa,
                   riskLevel, mitigationMeasures>>

\* lines 641-647, once validateGeoJSON has returned
CheckGeolocation ==
    /\ ddsPc = "validate"
    /\ pc = "returned"
    /\ Assess(RiskGeolocation(Assessment, HasGeolocation(geolocation), result))
    /\ ddsPc' = "deforestation"
    /\ UNCHANGED <<vars, exceptDds, geolocation, metadata, ddsTotalAreaHa, response>>

\* lines 649-652
CheckDeforestation ==
    /\ ddsPc = "deforestation"
    /\ Assess(RiskDeforestation(Assessment, DeforestationFree(metadata)))
    /\ ddsPc' = "legality"
    /\ UNCHANGED <<vars, exceptDds, geolocation, metadata, ddsTotalAreaHa, response>>

\* lines 654-657
CheckLegality ==
    /\ ddsPc = "legality"
    /\ Assess(RiskLegality(Assessment, LegalityCompliant(metadata)))
    /\ ddsPc' = "plotIds"
    /\ UNCHANGED <<vars, exceptDds, geolocation, metadata, ddsTotalAreaHa, response>>

\* lines 659-662
CheckPlotIds ==
    /\ ddsPc = "plotIds"
    /\ Assess(RiskPlotIds(Assessment, AllPlotsHaveIds(geolocation).value,
                          HasGeolocation(geolocation)))
    /\ ddsPc' = "quantity"
    /\ UNCHANGED <<vars, exceptDds, geolocation, metadata, ddsTotalAreaHa, response>>

\* lines 664-667
CheckQuantity ==
    /\ ddsPc = "quantity"
    /\ Assess(RiskQuantity(Assessment, Get(metadata, "quantity_net_mass_kg")))
    /\ ddsPc' = "assessed"
    /\ UNCHANGED <<vars, exceptDds, geolocation, metadata, ddsTotalAreaHa, response>>

\* lines 669-673, 543-621 and 456-461: the assessment is returned, the
\* Statement is built and the route answers it
RespondStatement ==
    /\ ddsPc = "assessed"
    /\ Respond(Statement(metadata, geolocation, ddsTotalAreaHa, Assessment))
    /\ UNCHANGED <<vars, exceptDds, geolocation, metadata, ddsTotalAreaHa,
                   riskLevel, mitigationMeasures>>

\* The steps of the route, with those of the validateGeoJSON call in it.  The
\* geolocation that reaches line 638 is an object with an array of features
\* (line 525 throws on any other), so the first two returns of
\* validateGeoJSON (lines 28-53) are not taken here.
NextDds ==
    \/ RespondInvalidTokenId
    \/ RespondBatchNotFound
    \/ BuildStatement
    \/ BuildThrows
    \/ EnterAssessment
    \/ RejectEmpty
    \/ EnterLoop
    \/ Iterate
    \/ IterateThrows
    \/ Finish
    \/ ValidationThrows
    \/ CheckGeolocation
    \/ CheckDeforestation
    \/ CheckLegality
    \/ CheckPlotIds
    \/ CheckQuantity
    \/ RespondStatement

DdsSpec == InitDds /\ [][NextDds]_allVars

(***************************************************************************)
(* Properties of the risk assessment and of the Statement                  *)
(***************************************************************************)
\* negligible < low < standard < non-negligible
Rank(level) ==
    CASE level = "negligible" -> 0
      [] level = "low" -> 1
      [] level = "standard" -> 2
      [] level = "non-negligible" -> 3

\* validateGeoJSON run alone on a value, as one function: the report it
\* returns, or the exception it throws
RECURSIVE ReportFrom(_, _, _)
ReportFrom(acc, features, idx) ==
    IF idx = Len(features) THEN Ok(FinalReport(acc))
    ELSE LET step == ValidateFeature(acc, features[idx + 1], idx)
         IN IF step.ok THEN ReportFrom(step.value, features, idx + 1) ELSE step

EmptyAcc == [errors |-> <<>>, warnings |-> <<>>, featureResults |-> <<>>,
             totalAreaHa |-> 0, requiresPolygonCount |-> 0, plotIds |-> {}]

ReportAlone(in) ==
    IF ~Truthy(in) \/ ~TypeofObject(in)
    THEN Ok(EarlyReport([kind |-> "InputNotObject"]))
    ELSE LET fc == normalizeToFeatureCollection(in)
         IN IF ~fc.ok
            THEN Ok(EarlyReport([kind |-> "Normalize", message |-> fc.message]))
            ELSE IF IsEmptyCollection(fc.value)
            THEN Ok(EarlyReport([kind |-> "EmptyCollection"]))
            ELSE ReportFrom(EmptyAcc, fc.value.features.items, 0)

\* the level GET /generate/:tokenId reports for a metadata, "none" when it
\* answers no Statement
LevelAlone(md) ==
    LET fc == GeolocationOf(md)
    IN IF ~calculateTotalArea(fc).ok \/ ~ReportAlone(fc).ok THEN "none"
       ELSE RiskQuantity(
                RiskPlotIds(
                    RiskLegality(
                        RiskDeforestation(
                            RiskGeolocation(
                                [riskLevel |-> "negligible", mitigationMeasures |-> <<>>],
                                HasGeolocation(fc), ReportAlone(fc).value),
                            DeforestationFree(md)),
                        LegalityCompliant(md)),
                    AllPlotsHaveIds(fc).value, HasGeolocation(fc)),
                Get(md, "quantity_net_mass_kg")).riskLevel

\* the negative findings an input carries, one name for each rule of lines
\* 641-667 that its content calls for
LacksPlotId(fc) ==
    \E k \in DOMAIN fc.features.items :
        ~Truthy(Get(Get(fc.features.items[k], "properties"), "plot_id"))

Findings(md) ==
    LET fc == GeolocationOf(md)
    IN {f \in {"geolocation", "deforestation", "legality", "plot_id", "quantity"} :
          \/ f = "geolocation" /\ (~HasGeolocation(fc) \/ ~ReportAlone(fc).value.valid)
          \/ f = "deforestation" /\ ~DeforestationFree(md)
          \/ f = "legality" /\ ~LegalityCompliant(md)
          \/ f = "plot_id" /\ HasGeolocation(fc) /\ LacksPlotId(fc)
          \/ f = "quantity" /\ ~Truthy(Get(md, "quantity_net_mass_kg"))}

\* inputs that differ from md in one member
Variants(md) ==
    {[md EXCEPT !.deforestation_check = d] :
        d \in {Undefined, [t |-> "object", status |-> Bool(FALSE)]}}
    \cup {[md EXCEPT !.legality_documents = l] : l \in {Undefined, Arr(<<>>)}}
    \cup {[md EXCEPT !.quantity_net_mass_kg = q] : q \in {Undefined, Num(FALSE, 0, 0)}}
    \cup {[md EXCEPT !.geolocation = g] :
            g \in {Undefined, Collection(<<>>),
                   Collection(<<Feat(PointLow, Props(AreaAbove, Undefined))>>),
                   Collection(<<Feat(PointGood, Props(AreaBelow, Undefined))>>),
                   Collection(<<Feat(PointLow, Props(AreaAbove, Str("P1")))>>)}}

\* those of them that carry every negative finding of md, and maybe more
Worsenings(md) ==
    {v \in Variants(md) : LevelAlone(v) # "none" /\ Findings(md) \subseteq Findings(v)}

Answered == ddsPc = "responded" /\ response.status = 200

HasMeasure(name) ==
    \E k \in DOMAIN mitigationMeasures : mitigationMeasures[k].measure = name

\* C14: within one assessment the level starts at negligible and no rule
\* moves it to a less severe value (negligible < low < standard <
\* non-negligible); and an input that differs from the assessed one by a
\* further negative finding is never assessed at a less severe final level.
C14_LevelNeverDecreases ==
    /\ [][/\ riskLevel = "unassigned" => riskLevel' \in {"unassigned", "negligible"}
          /\ riskLevel # "unassigned" =>
                Rank(riskLevel') >= Rank(riskLevel)]_allVars
    /\ [](Answered =>
            \A worse \in Worsenings(metadata) :
                Rank(LevelAlone(worse)) >= Rank(response.dds.risk_assessment.risk_level))

\* C14 witness: the missing-quantity rule, which proposes low, fired while the
\* level was non-negligible, and the level is still non-negligible.
C14_Witness ==
    /\ ddsPc = "assessed"
    /\ riskLevel = "non-negligible"
    /\ mitigationMeasures[Len(mitigationMeasures)].measure
            = "Specify net mass quantity in kg"

\* C14 witness, second part: a Statement was answered and some input with
\* one more negative finding is assessed at a strictly more severe level.
C14_WorseningSeen ==
    /\ Answered
    /\ \E worse \in Worsenings(metadata) :
          /\ Findings(worse) # Findings(metadata)
          /\ Rank(LevelAlone(worse)) > Rank(response.dds.risk_assessment.risk_level)

\* calculateRiskAssessment was called and the request is over
AssessmentOver == ddsPc = "responded" /\ riskLevel # "unassigned"

\* validateGeoJSON returned a report to calculateRiskAssessment
Reported == pc = "returned"

\* the three conditions of lines 641-657, read off the request
GeolocationFires ==
    ~HasGeolocation(geolocation) \/ (Reported /\ ~result.valid)
DeforestationFires == ~DeforestationFree(metadata)
LegalityFires == ~LegalityCompliant(metadata)
PlotIdFires == HasGeolocation(geolocation) /\ LacksPlotId(geolocation)
QuantityFires == ~Truthy(Get(metadata, "quantity_net_mass_kg"))

ReportedLevel == response.dds.risk_assessment.risk_level

\* C15: whenever the collection has no features or its validation is
\* invalid, or the deforestation check is absent or its status is not true,
\* or there is no legality document, calculateRiskAssessment returns
\* non-negligible, with the mitigation measure of each rule that fires.
C15_NonNegligibleWhenARuleFires ==
    (AssessmentOver /\ (GeolocationFires \/ DeforestationFires \/ LegalityFires)) =>
        /\ response.status = 200
        /\ ReportedLevel = "non-negligible"
        /\ ~HasGeolocation(geolocation) => HasMeasure("Provide plot-level geolocation data")
        /\ (HasGeolocation(geolocation) /\ ~result.valid) =>
                HasMeasure("Fix geolocation validation errors")
        /\ DeforestationFires => HasMeasure("Verify deforestation-free status")
        /\ LegalityFires => HasMeasure("Upload required legality documents")

\* what C15 says, for the calls that return
C15_HoldsWhenItReturns ==
    (Answered /\ (GeolocationFires \/ DeforestationFires \/ LegalityFires)) =>
        /\ ReportedLevel = "non-negligible"
        /\ ~HasGeolocation(geolocation) => HasMeasure("Provide plot-level geolocation data")
        /\ (HasGeolocation(geolocation) /\ ~result.valid) =>
                HasMeasure("Fix geolocation validation errors")
        /\ DeforestationFires => HasMeasure("Verify deforestation-free status")
        /\ LegalityFires => HasMeasure("Upload required legality documents")

\* the measures of the two rules that propose low, in the order of the code
LowMeasures ==
    (IF PlotIdFires
     THEN <<Measure("Assign unique plot_id to all geolocation features")>> ELSE <<>>)
    \o (IF QuantityFires THEN <<Measure("Specify net mass quantity in kg")>> ELSE <<>>)

\* C16: when none of the three non-negligible rules fires, the assessment
\* returned is low if some feature lacks a plot_id (with a feature present)
\* or the net mass is missing or zero, and negligible otherwise, with the
\* measure of each rule that fires and no other; and when the level is
\* already non-negligible, each of these two rules, if it fires, appends its
\* measure and leaves the level as it is.
C16_LowRules ==
    /\ []((AssessmentOver /\ Reported
           /\ ~(GeolocationFires \/ DeforestationFires \/ LegalityFires)) =>
            /\ response.status = 200
            /\ ReportedLevel = (IF PlotIdFires \/ QuantityFires THEN "low" ELSE "negligible")
            /\ mitigationMeasures = LowMeasures
            /\ response.dds.risk_assessment.mitigation_measures
                = (IF LowMeasures = <<>> THEN Undefined ELSE Arr(LowMeasures)))
    /\ [][(ddsPc = "plotIds" /\ riskLevel = "non-negligible" /\ PlotIdFires) =>
            /\ riskLevel' = "non-negligible"
            /\ mitigationMeasures' =
                Append(mitigationMeasures,
                       Measure("Assign unique plot_id to all geolocation features"))]_allVars
    /\ [][(ddsPc = "quantity" /\ riskLevel = "non-negligible" /\ QuantityFires) =>
            /\ riskLevel' = "non-negligible"
            /\ mitigationMeasures' =
                Append(mitigationMeasures,
                       Measure("Specify net mass quantity in kg"))]_allVars

\* C16 witness: a Statement was answered at level low with the two measures,
\* none of the non-negligible rules having fired.
C16_Witness ==
    /\ Answered
    /\ ~(GeolocationFires \/ DeforestationFires \/ LegalityFires)
    /\ ReportedLevel = "low"
    /\ mitigationMeasures
        = <<Measure("Assign unique plot_id to all geolocation features"),
            Measure("Specify net mass quantity in kg")>>

\* C16 witness, second part: the plot_id rule fired at level non-negligible.
C16_SevereSeen ==
    /\ ddsPc = "quantity"
    /\ riskLevel = "non-negligible"
    /\ PlotIdFires
    /\ HasMeasure("Assign unique plot_id to all geolocation features")

\* the steps of calculateRiskAssessment after the validation
Assessing == ddsPc \in {"deforestation", "legality", "plotIds", "quantity", "assessed"}

\* C17: when the validation report of the geolocation is invalid, no
\* Statement is answered and no rule of the risk assessment is applied.
C17_InvalidGeolocationFailsFast ==
    (Reported /\ ~result.valid) =>
        /\ ~Assessing
        /\ ddsPc = "responded" => response.status # 200

(***************************************************************************)
(* Part 5: the routes that accept a geolocation                            *)
(*         POST /mint (routes/batch.ts lines 20-166) and                   *)
(*         POST /validate-geolocation (lines 322-344), behind the          *)
(*         express.json() body parser (index.ts line 14).                  *)
(***************************************************************************)
\* EUDR_CONSTANTS.MAX_GEOJSON_SIZE_BYTES, eudr.types.ts line 260
MAX_GEOJSON_SIZE_BYTES == 5 * 1024 * 1024

\* validateFileSize, geojson.service.ts lines 292-294; no route calls it
validateFileSize(sizeBytes) == sizeBytes <= MAX_GEOJSON_SIZE_BYTES

\* express.json() without a limit takes body-parser's default of 100kb
\* (backend/src/index.ts line 14); the later index.ts sets 10mb
DefaultBodyLimit == 100 * 1024
RaisedBodyLimit == 10 * 1024 * 1024
BodyLimits == {DefaultBodyLimit, RaisedBodyLimit}

\* the serialized size of the geolocation of a request and the size of the
\* whole body, whose other members take 64 bytes here
RequestSizes ==
    {[sizeBytes |-> b, bodyBytes |-> b + 64] :
        b \in {1024, DefaultBodyLimit + 1, MAX_GEOJSON_SIZE_BYTES,
               MAX_GEOJSON_SIZE_BYTES + 1, RaisedBodyLimit + 1}}

\* the elements of the collections sent to the routes
RouteElements ==
    {Feat(PointGood, Props(AreaBelow, Str("P1"))),       \* valid
     Feat(PolyGood, Props(Undefined, Str("P2"))),        \* valid
     Feat(PointLow, Props(AreaAbove, Undefined)),        \* invalid
     Feat(PolyDegenerate, Props(Undefined, Str("P3"))),  \* valid, turf.area throws
     Feat(PointNoCoords, Props(Undefined, Str("P4")))}   \* validateGeoJSON throws

RouteGeolocations ==
    {Collection(fs) : fs \in SeqsUpTo(RouteElements, MaxFeatures)}
    \cup {Undefined, Str("geojson"), PointGood, Feat(PolyGood, EmptyObject),
          [t |-> "object", type |-> Str("FeatureCollection")]}

\* req.body of POST /mint
MintBodies ==
    {[t |-> "object", to |-> to, origin |-> Str("Ondo"), supplierId |-> Str("S1"),
      geolocation |-> g, deforestationCheck |-> d,
      legalityDocuments |-> Arr(<<LegalityDocument>>), metadata |-> m] :
        to \in {Str("0xA11CE"), Undefined},
        g \in RouteGeolocations,
        d \in {Undefined, [t |-> "object", status |-> Bool(TRUE)]},
        m \in {Undefined,
               [t |-> "object", description |-> Str("lot 7"),
                geolocation_hash |-> Str("0xabc")]}}

\* req.body of POST /validate-geolocation
ValidateBodies == {[t |-> "object", geolocation |-> g] : g \in RouteGeolocations}

Requests ==
    {[route |-> "mint", sizes |-> z, body |-> b] : z \in RequestSizes, b \in MintBodies}
    \cup {[route |-> "validate-geolocation", sizes |-> z, body |-> b] :
            z \in RequestSizes, b \in ValidateBodies}

\* obj with member key set to value: { ...obj, [key]: value }
WithMember(obj, key, value) ==
    [k \in DOMAIN obj \cup {key} |-> IF k = key THEN value ELSE obj[k]]

\* { ...base, ...extra }; spreading undefined adds nothing
Spread(base, extra) ==
    IF extra.t # "object" THEN base
    ELSE [k \in DOMAIN base \cup DOMAIN extra |->
            IF k \in DOMAIN extra THEN extra[k] ELSE base[k]]

\* a number of thousandths as a JavaScript number
Thousandths(n) ==
    IF n % 1000 = 0 THEN Num(FALSE, n \div 1000, 0)
    ELSE IF n % 100 = 0 THEN Num(FALSE, n \div 100, 1)
    ELSE IF n % 10 = 0 THEN Num(FALSE, n \div 10, 2)
    ELSE Num(FALSE, n, 3)

\* enrichWithArea, geojson.service.ts lines 240-261: the callback of map
EnrichedProperties(feature, area) ==
    WithMember(IF Get(feature, "properties").t = "object"
               THEN Get(feature, "properties") ELSE EmptyObject,
               "area_ha", Thousandths(Round3(area)))

EnrichPolygon(feature, area) ==
    IF ~area.ok THEN area
    ELSE Ok(WithMember(feature, "properties", EnrichedProperties(feature, area.value)))

EnrichFeature(feature) ==
    IF IsNullish(feature) \/ IsNullish(Get(feature, "geometry")) THEN Threw("TypeError")
    ELSE IF Get(Get(feature, "geometry"), "type") = Str("Polygon")
    THEN EnrichPolygon(feature, turfArea(feature))
    ELSE Ok(feature)

RECURSIVE EnrichFrom(_, _)
EnrichRest(rest, done, one) ==
    IF ~one.ok THEN one ELSE EnrichFrom(rest, Append(done, one.value))

EnrichFrom(features, done) ==
    IF features = <<>> THEN Ok(Collection(done))
    ELSE EnrichRest(Tail(features), done, EnrichFeature(Head(features)))

enrichWithArea(fc) == EnrichFrom(Get(fc, "features").items, <<>>)

\* The members of a parsed body are inserted in the order of its text; the
\* bodies of the model write their members in this order, and a member that
\* enrichWithArea adds comes last.
KeyOrder ==
    <<"type", "features", "geometry", "coordinates", "properties", "plot_id", "area_ha">>

RECURSIVE AsWritten(_)
KeysOf(v) == SelectSeq(KeyOrder, LAMBDA key : key \in DOMAIN v)

WrittenMembers(v, keys) ==
    Members([k \in 1..Len(keys) |-> <<keys[k], AsWritten(v[keys[k]])>>])

AsWritten(v) ==
    CASE v.t = "object" -> WrittenMembers(v, KeysOf(v))
      [] v.t = "array" -> Arr([k \in DOMAIN v.items |-> AsWritten(v.items[k])])
      [] OTHER -> v

HashOf(fc) == computeGeolocationHash(AsWritten(fc))

\* lines 80-89
ComplianceStatus(body, report) ==
    IF /\ Get(Get(body, "deforestationCheck"), "status") = Bool(TRUE)
       /\ Get(body, "legalityDocuments").t = "array"
       /\ Len(Get(body, "legalityDocuments").items) > 0
       /\ report.valid
    THEN "compliant"
    ELSE IF ~report.valid THEN "draft" ELSE "pending"

\* lines 92-130, with the members the model follows
BatchMetadata(body, enriched, hash, report) ==
    Spread([t |-> "object",
            description |-> Str("Sustainable cocoa batch"),
            geolocation |-> enriched,
            geolocation_hash |-> hash,
            compliance_status |-> Str(ComplianceStatus(body, report))],
           Get(body, "metadata"))

Reply(r) ==
    /\ reply' = r
    /\ routePc' = "responded"

Body == request.body

InitRoute ==
    /\ ValidatorIdle
    /\ LaterIdle
    /\ HashIdle
    /\ DdsIdle
    /\ geolocation = Undefined
    /\ normalizedGeo = NoResult
    /\ renormalized = NoResult
    /\ bodyLimit \in BodyLimits
    /\ request \in Requests
    /\ routePc = "received"
    /\ batchMetadata = Undefined
    /\ cid = NoResult
    /\ reply = NoResult

\* express.json(): a body longer than the limit is answered 413
RejectPayloadTooLarge ==
    /\ routePc = "received"
    /\ request.sizes.bodyBytes > bodyLimit
    /\ Reply(Failure(413))
    /\ UNCHANGED <<vars, exceptRoute, geolocation, normalizedGeo, hashVars,
                   bodyLimit, request, batchMetadata, cid>>

\* express.json(): the body is parsed and the route is entered (lines 22-36,
\* 324)
ParseBody ==
    /\ routePc = "received"
    /\ request.sizes.bodyBytes <= bodyLimit
    /\ geolocation' = Get(Body, "geolocation")
    /\ routePc' = request.route
    /\ UNCHANGED <<vars, exceptRoute, normalizedGeo, hashVars, bodyLimit, request,
                   batchMetadata, cid, reply>>

\* POST /mint, lines 38-43
MintRejectMissingFields ==
    /\ routePc = "mint"
    /\ ~Truthy(Get(Body, "to")) \/ ~Truthy(Get(Body, "origin"))
            \/ ~Truthy(Get(Body, "supplierId"))
    /\ Reply(Failure(400))
    /\ UNCHANGED <<vars, exceptRoute, geolocation, normalizedGeo, hashVars,
                   bodyLimit, request, batchMetadata, cid>>

MintHasFields ==
    Truthy(Get(Body, "to")) /\ Truthy(Get(Body, "origin"))
        /\ Truthy(Get(Body, "supplierId"))

\* POST /mint, lines 45-51
MintRejectNoGeolocation ==
    /\ routePc = "mint"
    /\ MintHasFields
    /\ ~Truthy(geolocation)
    /\ Reply(Failure(400))
    /\ UNCHANGED <<vars, exceptRoute, geolocation, normalizedGeo, hashVars,
                   bodyLimit, request, batchMetadata, cid>>

\* POST /mint, lines 54-62: the normalization throws
MintRejectFormat ==
    /\ routePc = "mint"
    /\ MintHasFields
    /\ Truthy(geolocation)
    /\ ~normalizeToFeatureCollection(geolocation).ok
    /\ normalizedGeo' = normalizeToFeatureCollection(geolocation)
    /\ Reply(Failure(400))
    /\ UNCHANGED <<vars, exceptRoute, geolocation, hashVars, bodyLimit, request,
                   batchMetadata, cid>>

\* POST /mint, lines 54-65: the normalization and the call of validateGeoJSON
MintNormalize ==
    /\ routePc = "mint"
    /\ MintHasFields
    /\ Truthy(geolocation)
    /\ normalizeToFeatureCollection(geolocation).ok
    /\ normalizedGeo' = normalizeToFeatureCollection(geolocation)
    /\ input' = normalizeToFeatureCollection(geolocation).value
    /\ pc' = "call"
    /\ routePc' = "mint-validate"
    /\ UNCHANGED <<featureCollection, i, errors, warnings, featureResults,
                   totalAreaHa, requiresPolygonCount, plotIds, result,
                   exceptRoute, geolocation, hashVars, bodyLimit, request,
                   batchMetadata, cid, reply>>

\* an exception in the route is caught and answered 500 (lines 162-165,
\* 340-343): here validateGeoJSON has thrown
RouteValidationThrows ==
    /\ routePc \in {"mint-validate", "validate"}
    /\ pc = "threw"
    /\ Reply(Failure(500))
    /\ UNCHANGED <<vars, exceptRoute, geolocation, normalizedGeo, hashVars,
                   bodyLimit, request, batchMetadata, cid>>

\* POST /mint, lines 66-72
MintRejectInvalid ==
    /\ routePc = "mint-validate"
    /\ pc = "returned"
    /\ ~result.valid
    /\ Reply([status |-> 400, errors |-> result.errors, warnings |-> result.warnings])
    /\ UNCHANGED <<vars, exceptRoute, geolocation, normalizedGeo, hashVars,
                   bodyLimit, request, batchMetadata, cid>>

\* POST /mint, line 75: enrichWithArea throws
MintEnrichThrows ==
    /\ routePc = "mint-validate"
    /\ pc = "returned"
    /\ result.valid
    /\ ~enrichWithArea(normalizedGeo.value).ok
    /\ Reply(Failure(500))
    /\ UNCHANGED <<vars, exceptRoute, geolocation, normalizedGeo, hashVars,
                   bodyLimit, request, batchMetadata, cid>>

\* the metadata of lines 92-130 for the enriched collection
MetadataFor(enriched) ==
    /\ enrichedGeo' = enriched
    /\ geolocationHash' = HashOf(enriched)
    /\ batchMetadata' = BatchMetadata(Body, enriched, HashOf(enriched), result)

\* POST /mint, lines 75-130: enriched collection, hash, metadata
MintBuildMetadata ==
    /\ routePc = "mint-validate"
    /\ pc = "returned"
    /\ result.valid
    /\ enrichWithArea(normalizedGeo.value).ok
    /\ MetadataFor(enrichWithArea(normalizedGeo.value).value)
    /\ routePc' = "upload"
    /\ UNCHANGED <<vars, exceptRoute, geolocation, normalizedGeo, bodyLimit,
                   request, cid, reply>>

\* POST /mint, line 133: the upload to IPFS fails
MintUploadFails ==
    /\ routePc = "upload"
    /\ cid' = Threw("upload")
    /\ Reply(Failure(500))
    /\ UNCHANGED <<vars, exceptRoute, geolocation, normalizedGeo, hashVars,
                   bodyLimit, request, batchMetadata>>

\* POST /mint, lines 133-134
MintUpload ==
    /\ routePc = "upload"
    /\ cid' = Ok(batchMetadata)
    /\ routePc' = "chain"
    /\ UNCHANGED <<vars, exceptRoute, geolocation, normalizedGeo, hashVars,
                   bodyLimit, request, batchMetadata, reply>>

\* POST /mint, lines 137-144: the transaction fails
MintOnChainFails ==
    /\ routePc = "chain"
    /\ Reply(Failure(500))
    /\ UNCHANGED <<vars, exceptRoute, geolocation, normalizedGeo, hashVars,
                   bodyLimit, request, batchMetadata, cid>>

\* POST /mint, lines 137-161: the token is minted and the route answers
MintRespond ==
    /\ routePc = "chain"
    /\ Reply([status |-> 200, success |-> TRUE,
              minted |-> [to |-> Get(Body, "to"), geolocationHash |-> geolocationHash],
              geolocationHash |-> geolocationHash,
              compliance_status |-> ComplianceStatus(Body, result),
              warnings |-> result.warnings])
    /\ UNCHANGED <<vars, exceptRoute, geolocation, normalizedGeo, hashVars,
                   bodyLimit, request, batchMetadata, cid>>

\* POST /validate-geolocation, lines 326-328
ValidateRejectNoGeolocation ==
    /\ routePc = "validate-geolocation"
    /\ ~Truthy(geolocation)
    /\ Reply(Failure(400))
    /\ UNCHANGED <<vars, exceptRoute, geolocation, normalizedGeo, hashVars,
                   bodyLimit, request, batchMetadata, cid>>

\* POST /validate-geolocation, line 330: the call of validateGeoJSON
ValidateCall ==
    /\ routePc = "validate-geolocation"
    /\ Truthy(geolocation)
    /\ input' = geolocation
    /\ pc' = "call"
    /\ routePc' = "validate"
    /\ UNCHANGED <<featureCollection, i, errors, warnings, featureResults,
                   totalAreaHa, requiresPolygonCount, plotIds, result,
                   exceptRoute, geolocation, normalizedGeo, hashVars, bodyLimit,
                   request, batchMetadata, cid, reply>>

\* POST /validate-geolocation, lines 332-340: an invalid report is answered
\* without a hash
ValidateRespondInvalid ==
    /\ routePc = "validate"
    /\ pc = "returned"
    /\ ~result.valid
    /\ Reply([status |-> 200, report |-> result, geolocation_hash |-> Null])
    /\ UNCHANGED <<vars, exceptRoute, geolocation, normalizedGeo, hashVars,
                   bodyLimit, request, batchMetadata, cid>>

\* POST /validate-geolocation, lines 332-340: a valid report is answered with
\* the hash of the normalized geolocation
ValidateRespondValid ==
    /\ routePc = "validate"
    /\ pc = "returned"
    /\ result.valid
    /\ normalizedGeo' = normalizeToFeatureCollection(geolocation)
    /\ geolocationHash' = HashOf(normalizeToFeatureCollection(geolocation).value)
    /\ Reply([status |-> 200, report |-> result,
              geolocation_hash |-> HashOf(normalizeToFeatureCollection(geolocation).value)])
    /\ UNCHANGED <<vars, exceptRoute, geolocation, enrichedGeo, bodyLimit, request,
                   batchMetadata, cid>>

NextRoute ==
    \/ RejectPayloadTooLarge
    \/ ParseBody
    \/ MintRejectMissingFields
    \/ MintRejectNoGeolocation
    \/ MintRejectFormat
    \/ MintNormalize
    \/ RejectNonObject
    \/ RejectUnparseable
    \/ RejectEmpty
    \/ EnterLoop
    \/ Iterate
    \/ IterateThrows
    \/ Finish
    \/ RouteValidationThrows
    \/ MintRejectInvalid
    \/ MintEnrichThrows
    \/ MintBuildMetadata
    \/ MintUploadFails
    \/ MintUpload
    \/ MintOnChainFails
    \/ MintRespond
    \/ ValidateRejectNoGeolocation
    \/ ValidateCall
    \/ ValidateRespondInvalid
    \/ ValidateRespondValid

RouteSpec == InitRoute /\ [][NextRoute]_allVars

(***************************************************************************)
(* Properties of the routes                                                *)
(***************************************************************************)
\* the route has begun to normalize or to validate the geolocation
Processing == pc # "idle" \/ normalizedGeo # NoResult

Replied == routePc = "responded"

\* C18: a geolocation whose serialized size exceeds MAX_GEOJSON_SIZE_BYTES
\* (5 * 1024 * 1024) is rejected by POST /mint and by POST
\* /validate-geolocation before it is normalized or validated, and one of
\* exactly that size is not rejected for its size.
C18_SizeCapBeforeNormalization ==
    /\ ~validateFileSize(request.sizes.sizeBytes) =>
            /\ ~Processing
            /\ Replied => reply.status \in {400, 413}
    /\ request.sizes.sizeBytes = MAX_GEOJSON_SIZE_BYTES =>
            (Replied => reply.status # 413)

\* the two halves of C18, each on its own
C18_OverCapRejected ==
    ~validateFileSize(request.sizes.sizeBytes) => ~Processing

C18_AtCapAccepted ==
    (request.sizes.sizeBytes = MAX_GEOJSON_SIZE_BYTES /\ Replied) => reply.status # 413

(***************************************************************************)
(* Part 6: calls of the service on behalf of several requests at once      *)
(*                                                                         *)
(* geojsonService is one object for the whole process (geojson.service.ts  *)
(* line 322) and it has no field; validateGeoJSON keeps its accumulators   *)
(* in locals (lines 21-25, 67), calculateRiskAssessment likewise (lines    *)
(* 633-634).  Each request has its own activation of the function it       *)
(* calls; the steps of the activations are interleaved freely, which       *)
(* covers every order a scheduler can produce.                             *)
(***************************************************************************)
RequestIds == {1, 2}

\* The features the requests send
ConcurrentElements ==
    {Feat(PointGood, Props(AreaBelow, Str("P1"))),     \* valid
     Feat(PointLow, Props(AreaAbove, Undefined)),      \* two errors, one warning
     Feat(PointNoCoords, Props(Undefined, Str("P1")))} \* validateGeoJSON throws

ConcurrentGeolocations ==
    {Collection(fs) : fs \in SeqsUpTo(ConcurrentElements, MaxFeatures)}

\* The geolocations of the stored batches: collections of the first two
\* features, one with a feature that makes validateGeoJSON throw, and none
StoredGeolocations ==
    {Collection(fs) :
        fs \in SeqsUpTo({Feat(PointGood, Props(AreaBelow, Str("P1"))),
                         Feat(PointLow, Props(AreaAbove, Undefined))}, MaxFeatures)}
    \cup {Collection(<<Feat(PointNoCoords, Props(Undefined, Str("P1")))>>), Undefined}

\* batch.ts line 330: validateGeoJSON(geolocation) on what the body holds
ValidateCalls ==
    {[fn |-> "validateGeoJSON", geolocation |-> g, deforestationFree |-> FALSE,
      legalityCompliant |-> FALSE, metadata |-> Undefined] :
        g \in ConcurrentGeolocations \cup {Undefined, LineString}}

\* dds routes, lines 519-536: calculateRiskAssessment(geolocation,
\* deforestationFree, legalityCompliant, metadata) on what a stored batch holds
AssessmentCall(md) ==
    [fn |-> "calculateRiskAssessment", geolocation |-> GeolocationOf(md),
     deforestationFree |-> DeforestationFree(md),
     legalityCompliant |-> LegalityCompliant(md), metadata |-> md]

ConcurrentMetadatas ==
    {[t |-> "object", geolocation |-> g, deforestation_check |-> Undefined,
      legality_documents |-> Undefined, quantity_net_mass_kg |-> Undefined,
      geolocation_hash |-> Str("0xabc")] :
        g \in StoredGeolocations}
    \cup {[t |-> "object", geolocation |-> g,
           deforestation_check |-> [t |-> "object", status |-> Bool(TRUE)],
           legality_documents |-> Arr(<<LegalityDocument>>),
           quantity_net_mass_kg |-> Num(FALSE, 500, 0),
           geolocation_hash |-> Str("0xabc")] :
            g \in StoredGeolocations}

AssessmentCalls == {AssessmentCall(md) : md \in ConcurrentMetadatas}

Calls == ValidateCalls \cup AssessmentCalls

\* the locals of a call that has not run yet
NewActivation(call) ==
    [pc |-> IF call.fn = "validateGeoJSON" THEN "call" ELSE "entry",
     featureCollection |-> Undefined,
     i |-> 0,
     acc |-> [errors |-> <<>>, warnings |-> <<>>, featureResults |-> <<>>,
              totalAreaHa |-> 0, requiresPolygonCount |-> 0, plotIds |-> {}],
     result |-> NoResult,
     assessment |-> [riskLevel |-> "unassigned", mitigationMeasures |-> <<>>]]

InitConcurrent ==
    /\ ValidatorIdle
    /\ NormalizeIdle
    /\ HashIdle
    /\ DdsIdle
    /\ RouteIdle
    /\ ContractIdle
    /\ IotIdle
    /\ arguments \in [RequestIds -> Calls]
    /\ activations = [r \in RequestIds |-> NewActivation(arguments[r])]

\* mutant: the accumulators are declared once for the module, so every
\* request works on the same ones
Activation_Shared(r) == 1

\* the activation a request's call works on: its own (the const and let of
\* lines 21-25 and 67, and of lines 633-634, are evaluated at each call)
Activation(r) == r

\* where a validateGeoJSON activation goes when it returns: to its caller,
\* which for line 638 is calculateRiskAssessment
AfterReturn(call) == IF call.fn = "validateGeoJSON" THEN "returned" ELSE "validated"

Becomes(a, frame) ==
    /\ activations' = [activations EXCEPT ![a] = frame]
    /\ UNCHANGED <<vars, normalizeVars, hashVars, ddsVars, routeVars, contractVars,
                   iotVars, arguments>>

\* lines 633-638: calculateRiskAssessment starts and calls validateGeoJSON
EnterAssessmentOn(a, call) ==
    /\ activations[a].pc = "entry"
    /\ call.fn = "calculateRiskAssessment"
    /\ AllPlotsHaveIds(call.geolocation).ok
    /\ Becomes(a, [activations[a] EXCEPT
                     !.pc = "call",
                     !.assessment = [riskLevel |-> "negligible",
                                     mitigationMeasures |-> <<>>]])

\* lines 28-37
RejectNonObjectOn(a, call) ==
    /\ activations[a].pc = "call"
    /\ ~Truthy(call.geolocation) \/ ~TypeofObject(call.geolocation)
    /\ Becomes(a, [activations[a] EXCEPT
                     !.pc = AfterReturn(call),
                     !.result = EarlyReport([kind |-> "InputNotObject"])])

\* lines 42-53
RejectUnparseableOn(a, call) ==
    /\ activations[a].pc = "call"
    /\ Truthy(call.geolocation) /\ TypeofObject(call.geolocation)
    /\ ~normalizeToFeatureCollection(call.geolocation).ok
    /\ Becomes(a, [activations[a] EXCEPT
                     !.pc = AfterReturn(call),
                     !.result = EarlyReport(
                         [kind |-> "Normalize",
                          message |-> normalizeToFeatureCollection(call.geolocation).message])])

\* lines 55-64
RejectEmptyOn(a, call) ==
    /\ activations[a].pc = "call"
    /\ Truthy(call.geolocation) /\ TypeofObject(call.geolocation)
    /\ normalizeToFeatureCollection(call.geolocation).ok
    /\ IsEmptyCollection(normalizeToFeatureCollection(call.geolocation).value)
    /\ Becomes(a, [activations[a] EXCEPT
                     !.pc = AfterReturn(call),
                     !.featureCollection = normalizeToFeatureCollection(call.geolocation).value,
                     !.result = EarlyReport([kind |-> "EmptyCollection"])])

\* lines 66-70
EnterLoopOn(a, call) ==
    /\ activations[a].pc = "call"
    /\ Truthy(call.geolocation) /\ TypeofObject(call.geolocation)
    /\ normalizeToFeatureCollection(call.geolocation).ok
    /\ ~IsEmptyCollection(normalizeToFeatureCollection(call.geolocation).value)
    /\ Becomes(a, [activations[a] EXCEPT
                     !.pc = "loop",
                     !.featureCollection = normalizeToFeatureCollection(call.geolocation).value])

\* lines 70-142: one iteration, which runs to its end or throws
Iterated(a, step) ==
    IF step.ok
    THEN Becomes(a, [activations[a] EXCEPT !.acc = step.value, !.i = @ + 1])
    ELSE Becomes(a, [activations[a] EXCEPT !.pc = "threw"])

IterateOn(a) ==
    /\ activations[a].pc = "loop"
    /\ activations[a].i < Len(activations[a].featureCollection.features.items)
    /\ Iterated(a, ValidateFeature(
                       activations[a].acc,
                       activations[a].featureCollection.features.items[activations[a].i + 1],
                       activations[a].i))

\* lines 144-151
FinishOn(a, call) ==
    /\ activations[a].pc = "loop"
    /\ activations[a].i = Len(activations[a].featureCollection.features.items)
    /\ Becomes(a, [activations[a] EXCEPT
                     !.pc = AfterReturn(call),
                     !.result = FinalReport(activations[a].acc)])

\* lines 641-647
CheckGeolocationOn(a, call) ==
    /\ activations[a].pc = "validated"
    /\ Becomes(a, [activations[a] EXCEPT
                     !.pc = "deforestation",
                     !.assessment = RiskGeolocation(@, HasGeolocation(call.geolocation),
                                                    activations[a].result)])

\* lines 649-652
CheckDeforestationOn(a, call) ==
    /\ activations[a].pc = "deforestation"
    /\ Becomes(a, [activations[a] EXCEPT
                     !.pc = "legality",
                     !.assessment = RiskDeforestation(@, call.deforestationFree)])

\* lines 654-657
CheckLegalityOn(a, call) ==
    /\ activations[a].pc = "legality"
    /\ Becomes(a, [activations[a] EXCEPT
                     !.pc = "plotIds",
                     !.assessment = RiskLegality(@, call.legalityCompliant)])

\* lines 659-662
CheckPlotIdsOn(a, call) ==
    /\ activations[a].pc = "plotIds"
    /\ Becomes(a, [activations[a] EXCEPT
                     !.pc = "quantity",
                     !.assessment = RiskPlotIds(@, AllPlotsHaveIds(call.geolocation).value,
                                                HasGeolocation(call.geolocation))])

\* lines 664-673: the last rule and the return
CheckQuantityOn(a, call) ==
    /\ activations[a].pc = "quantity"
    /\ Becomes(a, [activations[a] EXCEPT
                     !.pc = "returned",
                     !.assessment = RiskQuantity(@, Get(call.metadata,
                                                        "quantity_net_mass_kg"))])

\* a step of the call of one request
EnterAssessmentOf(r) == EnterAssessmentOn(Activation(r), arguments[r])
RejectNonObjectOf(r) == RejectNonObjectOn(Activation(r), arguments[r])
RejectUnparseableOf(r) == RejectUnparseableOn(Activation(r), arguments[r])
RejectEmptyOf(r) == RejectEmptyOn(Activation(r), arguments[r])
EnterLoopOf(r) == EnterLoopOn(Activation(r), arguments[r])
IterateOf(r) == IterateOn(Activation(r))
FinishOf(r) == FinishOn(Activation(r), arguments[r])
CheckGeolocationOf(r) == CheckGeolocationOn(Activation(r), arguments[r])
CheckDeforestationOf(r) == CheckDeforestationOn(Activation(r), arguments[r])
CheckLegalityOf(r) == CheckLegalityOn(Activation(r), arguments[r])
CheckPlotIdsOf(r) == CheckPlotIdsOn(Activation(r), arguments[r])
CheckQuantityOf(r) == CheckQuantityOn(Activation(r), arguments[r])

NextConcurrent ==
    \E r \in RequestIds :
        \/ EnterAssessmentOf(r)
        \/ RejectNonObjectOf(r)
        \/ RejectUnparseableOf(r)
        \/ RejectEmptyOf(r)
        \/ EnterLoopOf(r)
        \/ IterateOf(r)
        \/ FinishOf(r)
        \/ CheckGeolocationOf(r)
        \/ CheckDeforestationOf(r)
        \/ CheckLegalityOf(r)
        \/ CheckPlotIdsOf(r)
        \/ CheckQuantityOf(r)

ConcurrentSpec == InitConcurrent /\ [][NextConcurrent]_allVars

(***************************************************************************)
(* Properties of concurrent calls                                          *)
(***************************************************************************)
\* calculateRiskAssessment run alone on its arguments, as one function
AssessmentAlone(call) ==
    IF ~ReportAlone(call.geolocation).ok THEN ReportAlone(call.geolocation)
    ELSE Ok(RiskAssessmentOf(
             RiskQuantity(
                 RiskPlotIds(
                     RiskLegality(
                         RiskDeforestation(
                             RiskGeolocation(
                                 [riskLevel |-> "negligible", mitigationMeasures |-> <<>>],
                                 HasGeolocation(call.geolocation),
                                 ReportAlone(call.geolocation).value),
                             call.deforestationFree),
                         call.legalityCompliant),
                     AllPlotsHaveIds(call.geolocation).value,
                     HasGeolocation(call.geolocation)),
                 Get(call.metadata, "quantity_net_mass_kg"))))

\* what a call run alone gives
Alone(call) ==
    IF call.fn = "validateGeoJSON" THEN ReportAlone(call.geolocation)
    ELSE AssessmentAlone(call)

\* what the call of request r gave
Given(r) ==
    IF arguments[r].fn = "validateGeoJSON" THEN activations[r].result
    ELSE RiskAssessmentOf(activations[r].assessment)

\* C19: whatever the interleaving of the calls of independent requests, a
\* call that has returned has returned the report (the assessment) that the
\* same call returns when it runs alone on its input, a call throws only if
\* it throws alone, and no step of any call changes the objects a caller
\* passed.
C19_CallsAreIndependent ==
    /\ [](\A r \in RequestIds :
            /\ activations[r].pc = "returned" => Alone(arguments[r]) = Ok(Given(r))
            /\ activations[r].pc = "threw" => ~Alone(arguments[r]).ok)
    /\ [][arguments' = arguments]_allVars

\* one request's call has returned a report with errors while the call of
\* another request, on another input, is inside its loop
C19_Witness ==
    \E r, q \in RequestIds :
        /\ r # q
        /\ arguments[r] # arguments[q]
        /\ activations[r].pc = "returned"
        /\ arguments[r].fn = "validateGeoJSON"
        /\ Len(activations[r].result.errors) > 0
        /\ activations[q].pc = "loop"
        /\ activations[q].i > 0
        /\ arguments[q].fn = "calculateRiskAssessment"

(***************************************************************************)
(* Part 7: the SupplyChainNFT contract (contracts/SupplyChainNFT.sol,      *)
(* lines 140-350).  One step is one transaction: it runs to its end, or    *)
(* it reverts and the state of the contract is what it was before.  The    *)
(* transfers of ERC721 and updateGeolocation are not followed.             *)
(***************************************************************************)
MaxTransactions == 3

ZeroAddress == "0x0"
Accounts == {"owner", "minter", "user"}

DEFAULT_ADMIN_ROLE == "DEFAULT_ADMIN_ROLE"
MINTER_ROLE == "MINTER_ROLE"
ORACLE_ROLE == "ORACLE_ROLE"

\* bytes32(0), and the digest of a geolocation
Bytes32Zero == [keccak256 |-> <<>>]
GeolocationHashes == {[keccak256 |-> <<"{}">>]}

\* the constructor, lines 182-186, run by the deployer
InitContract ==
    /\ ValidatorIdle
    /\ NormalizeIdle
    /\ HashIdle
    /\ DdsIdle
    /\ RouteIdle
    /\ ConcurrentIdle
    /\ IotIdle
    /\ nextTokenId = 0
    /\ owners = <<>>
    /\ tokenURIs = <<>>
    /\ batches = <<>>
    /\ batchHistory = <<>>
    /\ roles = [role \in {DEFAULT_ADMIN_ROLE, MINTER_ROLE, ORACLE_ROLE} |-> {"owner"}]
    /\ receipts = <<>>
    /\ lastTransaction = NoResult
    /\ blockNumber = 0

\* AccessControl.hasRole
hasRole(role, account) == account \in roles[role]

\* mutant: the modifier lets every caller in
onlyRole_Unchecked(role, account) == TRUE

\* the modifier onlyRole(role) for the caller msg.sender (lines 204, 235, 249)
onlyRole(role, account) == hasRole(role, account)

\* ERC721._ownerOf: address(0) for a token never minted
OwnerOf(tokenId) == IF tokenId \in DOMAIN owners THEN owners[tokenId] ELSE ZeroAddress

\* a mapping with one more entry
Stored(mapping, key, value) ==
    [k \in DOMAIN mapping \cup {key} |-> IF k = key THEN value ELSE mapping[k]]

Receipt(fn, sender, status, detail) ==
    [fn |-> fn, sender |-> sender, status |-> status, detail |-> detail]

Sent(receipt) ==
    /\ Len(receipts) < MaxTransactions
    /\ receipts' = Append(receipts, receipt)
    /\ UNCHANGED <<vars, normalizeVars, hashVars, ddsVars, routeVars, concurrentVars,
                   iotVars, lastTransaction, blockNumber>>

\* a transaction that reverts: nothing it wrote remains
Reverts(fn, sender, reason) ==
    /\ Sent(Receipt(fn, sender, "reverted", Str(reason)))
    /\ UNCHANGED <<nextTokenId, owners, tokenURIs, batches, batchHistory, roles>>

\* lines 205-223: the body of mintBatch
Minted(fn, sender, to, uri, origin, supplierId, carbonFootprint, hash) ==
    /\ nextTokenId' = nextTokenId + 1
    /\ owners' = Stored(owners, nextTokenId, to)
    /\ tokenURIs' = Stored(tokenURIs, nextTokenId, uri)
    /\ batches' = Stored(batches, nextTokenId,
                         [origin |-> origin,
                          timestamp |-> Len(receipts) + 1,
                          supplierId |-> supplierId,
                          carbonFootprint |-> carbonFootprint,
                          temperature |-> 0,
                          humidity |-> 0,
                          complianceStatus |-> TRUE,
                          currentHolder |-> "Supplier",
                          geolocationHash |-> hash])
    /\ batchHistory' = Stored(batchHistory, nextTokenId,
                              <<"Minted at Origin with EUDR geolocation">>)
    /\ Sent(Receipt(fn, sender, "success", Num(FALSE, nextTokenId, 0)))
    /\ UNCHANGED roles

\* lines 197-224, and 229-237 which calls it with bytes32(0): the caller holds
\* the role and the receiver is an account
Mint(fn, sender, to, hash) ==
    /\ onlyRole(MINTER_ROLE, sender)
    /\ to # ZeroAddress
    /\ Minted(fn, sender, to, "ipfs://test", "Lagos, Nigeria", "NGR-001", 2500, hash)

\* the modifier of lines 204 and 235 reverts
MintUnauthorized(fn, sender) ==
    /\ ~onlyRole(MINTER_ROLE, sender)
    /\ Reverts(fn, sender, "AccessControlUnauthorizedAccount")

\* line 206: _safeMint reverts for the zero address
MintInvalidReceiver(fn, sender) ==
    /\ onlyRole(MINTER_ROLE, sender)
    /\ Reverts(fn, sender, "ERC721InvalidReceiver")

MintBatch ==
    \E sender \in Accounts, to \in {"user", "minter"}, h \in GeolocationHashes :
        Mint("mintBatch", sender, to, h)

MintBatchUnauthorized == \E sender \in Accounts : MintUnauthorized("mintBatch", sender)

MintBatchInvalidReceiver ==
    \E sender \in Accounts : MintInvalidReceiver("mintBatch", sender)

MintBatchLegacy ==
    \E sender \in Accounts, to \in {"user", "minter"} :
        Mint("mintBatchLegacy", sender, to, Bytes32Zero)

MintBatchLegacyUnauthorized ==
    \E sender \in Accounts : MintUnauthorized("mintBatchLegacy", sender)

MintBatchLegacyInvalidReceiver ==
    \E sender \in Accounts : MintInvalidReceiver("mintBatchLegacy", sender)

\* AccessControl.grantRole and revokeRole, for the admin of the role
GrantRole ==
    \E sender \in Accounts, account \in {"minter", "user"} :
        /\ onlyRole(DEFAULT_ADMIN_ROLE, sender)
        /\ roles' = [roles EXCEPT ![MINTER_ROLE] = @ \cup {account}]
        /\ Sent(Receipt("grantRole", sender, "success", Str(account)))
        /\ UNCHANGED <<nextTokenId, owners, tokenURIs, batches, batchHistory>>

RevokeRole ==
    \E sender \in Accounts, account \in {"minter", "owner"} :
        /\ onlyRole(DEFAULT_ADMIN_ROLE, sender)
        /\ roles' = [roles EXCEPT ![MINTER_ROLE] = @ \ {account}]
        /\ Sent(Receipt("revokeRole", sender, "success", Str(account)))
        /\ UNCHANGED <<nextTokenId, owners, tokenURIs, batches, batchHistory>>

RoleChangeUnauthorized ==
    \E sender \in Accounts, fn \in {"grantRole", "revokeRole"} :
        /\ ~onlyRole(DEFAULT_ADMIN_ROLE, sender)
        /\ Reverts(fn, sender, "AccessControlUnauthorizedAccount")

\* lines 242-266, with an empty newUri
UpdateBatchData ==
    \E sender \in Accounts, tokenId \in 0..MaxTransactions :
        /\ onlyRole(ORACLE_ROLE, sender)
        /\ OwnerOf(tokenId) # ZeroAddress
        /\ batches' = [batches EXCEPT ![tokenId].temperature = 250,
                                      ![tokenId].humidity = 650,
                                      ![tokenId].carbonFootprint = @ + 100]
        /\ batchHistory' = [batchHistory EXCEPT ![tokenId] = Append(@, "Temp update")]
        /\ Sent(Receipt("updateBatchData", sender, "success", Num(FALSE, tokenId, 0)))
        /\ UNCHANGED <<nextTokenId, owners, tokenURIs, roles>>

UpdateBatchDataReverts ==
    \E sender \in Accounts, tokenId \in 0..MaxTransactions :
        \/ /\ ~onlyRole(ORACLE_ROLE, sender)
           /\ Reverts("updateBatchData", sender, "AccessControlUnauthorizedAccount")
        \/ /\ onlyRole(ORACLE_ROLE, sender)
           /\ OwnerOf(tokenId) = ZeroAddress
           /\ Reverts("updateBatchData", sender, "Batch does not exist")

\* lines 292-301
TransferCustody ==
    \E sender \in Accounts, tokenId \in 0..MaxTransactions :
        /\ OwnerOf(tokenId) = sender
        /\ batches' = [batches EXCEPT ![tokenId].currentHolder = "Exporter"]
        /\ batchHistory' = [batchHistory EXCEPT ![tokenId] = Append(@, "Shipped")]
        /\ Sent(Receipt("transferCustody", sender, "success", Num(FALSE, tokenId, 0)))
        /\ UNCHANGED <<nextTokenId, owners, tokenURIs, roles>>

\* line 297: ownerOf reverts for a token never minted, the require for a
\* caller who is not the owner
TransferCustodyReverts ==
    \E sender \in Accounts, tokenId \in 0..MaxTransactions :
        /\ OwnerOf(tokenId) # sender
        /\ Reverts("transferCustody", sender,
                   IF OwnerOf(tokenId) = ZeroAddress THEN "ERC721NonexistentToken"
                   ELSE "Caller is not owner")

NextContract ==
    \/ MintBatch
    \/ MintBatchUnauthorized
    \/ MintBatchInvalidReceiver
    \/ MintBatchLegacy
    \/ MintBatchLegacyUnauthorized
    \/ MintBatchLegacyInvalidReceiver
    \/ GrantRole
    \/ RevokeRole
    \/ RoleChangeUnauthorized
    \/ UpdateBatchData
    \/ UpdateBatchDataReverts
    \/ TransferCustody
    \/ TransferCustodyReverts

ContractSpec == InitContract /\ [][NextContract]_allVars

(***************************************************************************)
(* Properties of the contract                                              *)
(***************************************************************************)
IsMint(receipt) == receipt.fn \in {"mintBatch", "mintBatchLegacy"}

\* C20: a transaction that calls mintBatch or mintBatchLegacy succeeds only
\* if its sender holds MINTER_ROLE when it is sent; sent by any other
\* account it reverts, and the token counter, the owners, the batch records
\* and the histories are after it what they were before.
C20_OnlyMintersMint ==
    [][(Len(receipts') = Len(receipts) + 1 /\ IsMint(receipts'[Len(receipts')])) =>
          /\ receipts'[Len(receipts')].status = "success" =>
                receipts'[Len(receipts')].sender \in roles[MINTER_ROLE]
          /\ receipts'[Len(receipts')].sender \notin roles[MINTER_ROLE] =>
                /\ receipts'[Len(receipts')].status = "reverted"
                /\ UNCHANGED <<nextTokenId, owners, tokenURIs, batches, batchHistory>>
      ]_allVars

\* right after a batch was minted, an account without the role has called
\* mintBatch or mintBatchLegacy, and the transaction reverted
C20_Witness ==
    /\ nextTokenId = 1
    /\ Len(receipts) = MaxTransactions
    /\ \E k \in DOMAIN receipts :
          /\ IsMint(receipts[k])
          /\ receipts[k].status = "reverted"
          /\ receipts[k].detail = Str("AccessControlUnauthorizedAccount")
          /\ receipts[k].sender \notin roles[MINTER_ROLE]
          /\ k > 1
          /\ receipts[k - 1].status = "success"
          /\ IsMint(receipts[k - 1])

(***************************************************************************)
(* Part 8: the records the contract keeps (SupplyChainNFT.sol lines        *)
(* 197-329).  The functions of the contract are written as functions from  *)
(* the state of the contract to its next state, so that a call made from   *)
(* inside another (the onERC721Received callback of _safeMint, line 206)   *)
(* acts on the state the outer call has reached.  The roles are those the  *)
(* constructor grants.                                                     *)
(***************************************************************************)

\* uint256: Uint(high, low) is the number high * 2^255 + low, for a low
\* far below 2^255
Uint(high, low) == [high |-> high, low |-> low]

\* mutant: the addition wraps around (an unchecked block)
UintAdd_Wrapping(a, b) == Ok(Uint((a.high + b.high) % 2, a.low + b.low))

\* a + b in Solidity 0.8: a sum of 2^256 or more reverts with Panic(0x11)
UintAdd(a, b) ==
    IF a.high + b.high >= 2 THEN Threw("Panic(0x11)")
    ELSE Ok(Uint(a.high + b.high, a.low + b.low))

\* a <= b
UintLE(a, b) == a.high < b.high \/ (a.high = b.high /\ a.low <= b.low)

\* the state of the contract, without the roles
Chain ==
    [nextTokenId |-> nextTokenId, owners |-> owners, tokenURIs |-> tokenURIs,
     batches |-> batches, batchHistory |-> batchHistory]

\* a BatchData nothing was written to
DefaultBatch ==
    [origin |-> "", timestamp |-> 0, supplierId |-> "", carbonFootprint |-> Uint(0, 0),
     temperature |-> 0, humidity |-> 0, complianceStatus |-> FALSE,
     currentHolder |-> "", geolocationHash |-> Bytes32Zero]

OwnerIn(w, tokenId) ==
    IF tokenId \in DOMAIN w.owners THEN w.owners[tokenId] ELSE ZeroAddress

BatchIn(w, tokenId) ==
    IF tokenId \in DOMAIN w.batches THEN w.batches[tokenId] ELSE DefaultBatch

HistoryIn(w, tokenId) ==
    IF tokenId \in DOMAIN w.batchHistory THEN w.batchHistory[tokenId] ELSE <<>>

\* _setTokenURI(tokenId, uri)
SetTokenURI(w, tokenId, uri) == [w EXCEPT !.tokenURIs = Stored(@, tokenId, uri)]

\* batchHistory[tokenId].push(note)
PushHistory(w, tokenId, note) ==
    [w EXCEPT !.batchHistory = Stored(@, tokenId, Append(HistoryIn(w, tokenId), note))]

\* mutant: every caller may transfer the custody of an existing batch
transferCustody_AnyCaller(w, sender, tokenId, nextHolder, historyNote) ==
    IF OwnerIn(w, tokenId) = ZeroAddress THEN Threw("ERC721NonexistentToken")
    ELSE Ok(PushHistory(
                [w EXCEPT !.batches =
                    Stored(@, tokenId,
                           [BatchIn(w, tokenId) EXCEPT !.currentHolder = nextHolder])],
                tokenId, historyNote))

\* lines 292-301; ownerOf reverts for a token that was never minted
transferCustody(w, sender, tokenId, nextHolder, historyNote) ==
    IF OwnerIn(w, tokenId) = ZeroAddress THEN Threw("ERC721NonexistentToken")
    ELSE IF OwnerIn(w, tokenId) # sender THEN Threw("Caller is not owner")
    ELSE Ok(PushHistory(
                [w EXCEPT !.batches =
                    Stored(@, tokenId,
                           [BatchIn(w, tokenId) EXCEPT !.currentHolder = nextHolder])],
                tokenId, historyNote))

\* ERC721.transferFrom(from, to, tokenId) sent by the owner of the token
transferFrom(w, sender, tokenId, to) ==
    IF OwnerIn(w, tokenId) = ZeroAddress THEN Threw("ERC721NonexistentToken")
    ELSE IF OwnerIn(w, tokenId) # sender THEN Threw("ERC721InsufficientApproval")
    ELSE IF to = ZeroAddress THEN Threw("ERC721InvalidReceiver")
    ELSE Ok([w EXCEPT !.owners = Stored(@, tokenId, to)])

\* lines 252-264: the writes of updateBatchData, given the new footprint
UpdatedBatch(w, a, sum) ==
    IF ~sum.ok THEN sum
    ELSE Ok([w EXCEPT
               !.batches = Stored(@, a.tokenId,
                                  [BatchIn(w, a.tokenId) EXCEPT
                                      !.temperature = a.temperature,
                                      !.humidity = a.humidity,
                                      !.carbonFootprint = sum.value]),
               !.batchHistory = IF a.historyNote # ""
                                THEN Stored(@, a.tokenId,
                                            Append(HistoryIn(w, a.tokenId), a.historyNote))
                                ELSE @,
               !.tokenURIs = IF a.newUri # "" THEN Stored(@, a.tokenId, a.newUri)
                             ELSE @])

\* mutant: the footprint is overwritten with the amount sent
updateBatchData_Overwrites(w, sender, a) ==
    IF ~onlyRole(ORACLE_ROLE, sender) THEN Threw("AccessControlUnauthorizedAccount")
    ELSE IF OwnerIn(w, a.tokenId) = ZeroAddress THEN Threw("Batch does not exist")
    ELSE UpdatedBatch(w, a, Ok(a.carbonFootprint))

\* lines 242-266
updateBatchData(w, sender, a) ==
    IF ~onlyRole(ORACLE_ROLE, sender) THEN Threw("AccessControlUnauthorizedAccount")
    ELSE IF OwnerIn(w, a.tokenId) = ZeroAddress THEN Threw("Batch does not exist")
    ELSE UpdatedBatch(w, a, UintAdd(BatchIn(w, a.tokenId).carbonFootprint,
                                    a.carbonFootprint))

\* lines 271-287
updateGeolocation(w, sender, a) ==
    IF ~onlyRole(ORACLE_ROLE, sender) THEN Threw("AccessControlUnauthorizedAccount")
    ELSE IF OwnerIn(w, a.tokenId) = ZeroAddress THEN Threw("Batch does not exist")
    ELSE Ok([PushHistory(w, a.tokenId, "Geolocation updated") EXCEPT
               !.batches = Stored(@, a.tokenId,
                                  [BatchIn(w, a.tokenId) EXCEPT
                                      !.geolocationHash = a.newGeolocationHash]),
               !.tokenURIs = IF a.newUri # "" THEN Stored(@, a.tokenId, a.newUri)
                             ELSE @])

\* what the receiver of _safeMint does when ERC721 calls its
\* onERC721Received: an account without code is not called; a contract
\* accepts, refuses, or first calls back into SupplyChainNFT as the owner
\* of the token it is receiving
Behaviours == {"accept", "reject", "transferCustody", "transferFrom"}

onERC721Received(w, receiver, tokenId, behaviour) ==
    CASE behaviour = "accept" -> Ok(w)
      [] behaviour = "reject" -> Threw("ERC721InvalidReceiver")
      [] behaviour = "transferCustody" ->
            transferCustody(w, receiver, tokenId, "Warehouse", "Received")
      [] behaviour = "transferFrom" -> transferFrom(w, receiver, tokenId, "user")

\* lines 205-206: the id is taken, the token is given to `to` (ERC721._mint)
\* and the receiver is asked
SafeMinted(w, to, behaviour) ==
    onERC721Received([w EXCEPT !.nextTokenId = @ + 1,
                               !.owners = Stored(@, w.nextTokenId, to)],
                     to, w.nextTokenId, behaviour)

\* lines 207-221, on the state the receiver has left
Recorded(received, tokenId, a, timestamp) ==
    IF ~received.ok THEN received
    ELSE Ok(PushHistory(
                [SetTokenURI(received.value, tokenId, a.uri) EXCEPT
                    !.batches = Stored(@, tokenId,
                                       [origin |-> a.origin,
                                        timestamp |-> timestamp,
                                        supplierId |-> a.supplierId,
                                        carbonFootprint |-> a.carbonFootprint,
                                        temperature |-> 0,
                                        humidity |-> 0,
                                        complianceStatus |-> TRUE,
                                        currentHolder |-> "Supplier",
                                        geolocationHash |-> a.geolocationHash])],
                tokenId, "Minted at Origin with EUDR geolocation"))

\* lines 197-224
mintBatch(w, sender, a, behaviour, timestamp) ==
    IF ~onlyRole(MINTER_ROLE, sender) THEN Threw("AccessControlUnauthorizedAccount")
    ELSE IF a.to = ZeroAddress THEN Threw("ERC721InvalidReceiver")
    ELSE Recorded(SafeMinted(w, a.to, behaviour), w.nextTokenId, a, timestamp)

\* lines 229-237
mintBatchLegacy(w, sender, a, behaviour, timestamp) ==
    IF ~onlyRole(MINTER_ROLE, sender) THEN Threw("AccessControlUnauthorizedAccount")
    ELSE mintBatch(w, sender, [a EXCEPT !.geolocationHash = Bytes32Zero], behaviour,
                   timestamp)

\* lines 306-308
getBatchHistory(tokenId) == HistoryIn(Chain, tokenId)

\* lines 313-315
checkCompliance(tokenId, maxCarbon) ==
    UintLE(BatchIn(Chain, tokenId).carbonFootprint, maxCarbon)

\* The transactions sent
OtherHash == [keccak256 |-> <<"{\"type\":\"FeatureCollection\"}">>]

MintArguments(to, big) ==
    IF big
    THEN [to |-> to, uri |-> "ipfs://b", origin |-> "Accra, Ghana",
          supplierId |-> "GHA-002", carbonFootprint |-> Uint(1, 0),
          geolocationHash |-> OtherHash]
    ELSE [to |-> to, uri |-> "ipfs://a", origin |-> "Lagos, Nigeria",
          supplierId |-> "NGR-001", carbonFootprint |-> Uint(0, 2500),
          geolocationHash |-> [keccak256 |-> <<"{}">>]]

Call(sender, args, behaviour) ==
    [sender |-> sender, args |-> args, behaviour |-> behaviour]

MintCalls ==
    {Call("owner", MintArguments("user", FALSE), "accept"),
     Call("owner", MintArguments("user", TRUE), "accept"),
     Call("owner", MintArguments(ZeroAddress, FALSE), "accept"),
     Call("user", MintArguments("user", FALSE), "accept")}
    \cup {Call("owner", MintArguments("receiver", FALSE), b) : b \in Behaviours}

LegacyMintCalls ==
    {Call("owner", MintArguments("user", FALSE), "accept"),
     Call("user", MintArguments("user", FALSE), "accept"),
     Call("owner", MintArguments("receiver", FALSE), "transferCustody")}

TokenIds == 0..1

UpdateArguments(tokenId, big) ==
    IF big
    THEN [tokenId |-> tokenId, temperature |-> 0 - 50, humidity |-> 0,
          carbonFootprint |-> Uint(1, 0), historyNote |-> "", newUri |-> "ipfs://new"]
    ELSE [tokenId |-> tokenId, temperature |-> 250, humidity |-> 650,
          carbonFootprint |-> Uint(0, 100), historyNote |-> "Temp update",
          newUri |-> ""]

UpdateCalls ==
    {Call("owner", UpdateArguments(t, big), "none") : t \in TokenIds, big \in BOOLEAN}
    \cup {Call("user", UpdateArguments(0, FALSE), "none")}

GeolocationCalls ==
    {Call("owner", [tokenId |-> t, newGeolocationHash |-> OtherHash, newUri |-> u],
          "none") : t \in TokenIds, u \in {"", "ipfs://geo"}}
    \cup {Call("user", [tokenId |-> 0, newGeolocationHash |-> OtherHash, newUri |-> ""],
               "none")}

CustodyCalls ==
    {Call(s, [tokenId |-> t, nextHolder |-> "Manufacturer", historyNote |-> "Shipped"],
          "none") : s \in {"owner", "user", "receiver"}, t \in TokenIds}

TransferCalls ==
    {Call(s, [tokenId |-> t, to |-> "owner"], "none") :
        s \in {"user", "receiver"}, t \in TokenIds}

Transaction(fn, call, status, detail) ==
    [fn |-> fn, sender |-> call.sender, args |-> call.args,
     behaviour |-> call.behaviour, status |-> status, detail |-> detail]

Logged(transaction) ==
    /\ blockNumber < MaxTransactions
    /\ lastTransaction' = transaction
    /\ blockNumber' = blockNumber + 1
    /\ UNCHANGED <<vars, normalizeVars, hashVars, ddsVars, routeVars, concurrentVars,
                   iotVars, roles, receipts>>

\* the transaction ran to its end: what it wrote is the new state
Succeeds(fn, call, outcome) ==
    /\ outcome.ok
    /\ nextTokenId' = outcome.value.nextTokenId
    /\ owners' = outcome.value.owners
    /\ tokenURIs' = outcome.value.tokenURIs
    /\ batches' = outcome.value.batches
    /\ batchHistory' = outcome.value.batchHistory
    /\ Logged(Transaction(fn, call, "success", ""))

\* the transaction reverted: nothing it wrote remains
Fails(fn, call, outcome) ==
    /\ ~outcome.ok
    /\ UNCHANGED <<nextTokenId, owners, tokenURIs, batches, batchHistory>>
    /\ Logged(Transaction(fn, call, "reverted", outcome.message))

MintBatchSucceeds ==
    \E c \in MintCalls :
        Succeeds("mintBatch", c,
                 mintBatch(Chain, c.sender, c.args, c.behaviour, blockNumber + 1))

MintBatchFails ==
    \E c \in MintCalls :
        Fails("mintBatch", c,
              mintBatch(Chain, c.sender, c.args, c.behaviour, blockNumber + 1))

MintBatchLegacySucceeds ==
    \E c \in LegacyMintCalls :
        Succeeds("mintBatchLegacy", c,
                 mintBatchLegacy(Chain, c.sender, c.args, c.behaviour, blockNumber + 1))

MintBatchLegacyFails ==
    \E c \in LegacyMintCalls :
        Fails("mintBatchLegacy", c,
              mintBatchLegacy(Chain, c.sender, c.args, c.behaviour, blockNumber + 1))

UpdateBatchDataSucceeds ==
    \E c \in UpdateCalls :
        Succeeds("updateBatchData", c, updateBatchData(Chain, c.sender, c.args))

UpdateBatchDataFails ==
    \E c \in UpdateCalls :
        Fails("updateBatchData", c, updateBatchData(Chain, c.sender, c.args))

UpdateGeolocationSucceeds ==
    \E c \in GeolocationCalls :
        Succeeds("updateGeolocation", c, updateGeolocation(Chain, c.sender, c.args))

UpdateGeolocationFails ==
    \E c \in GeolocationCalls :
        Fails("updateGeolocation", c, updateGeolocation(Chain, c.sender, c.args))

TransferCustodySucceeds ==
    \E c \in CustodyCalls :
        Succeeds("transferCustody", c,
                 transferCustody(Chain, c.sender, c.args.tokenId, c.args.nextHolder,
                                 c.args.historyNote))

TransferCustodyFails ==
    \E c \in CustodyCalls :
        Fails("transferCustody", c,
              transferCustody(Chain, c.sender, c.args.tokenId, c.args.nextHolder,
                              c.args.historyNote))

TransferFromSucceeds ==
    \E c \in TransferCalls :
        Succeeds("transferFrom", c,
                 transferFrom(Chain, c.sender, c.args.tokenId, c.args.to))

TransferFromFails ==
    \E c \in TransferCalls :
        Fails("transferFrom", c,
              transferFrom(Chain, c.sender, c.args.tokenId, c.args.to))

NextLedger ==
    \/ MintBatchSucceeds
    \/ MintBatchFails
    \/ MintBatchLegacySucceeds
    \/ MintBatchLegacyFails
    \/ UpdateBatchDataSucceeds
    \/ UpdateBatchDataFails
    \/ UpdateGeolocationSucceeds
    \/ UpdateGeolocationFails
    \/ TransferCustodySucceeds
    \/ TransferCustodyFails
    \/ TransferFromSucceeds
    \/ TransferFromFails

LedgerSpec == InitContract /\ [][NextLedger]_allVars

(***************************************************************************)
(* Properties of the records of the contract                               *)
(***************************************************************************)
\* this step is a transaction that called one of the functions fns
Sends(fns) == blockNumber' = blockNumber + 1 /\ lastTransaction'.fn \in fns

Mints == {"mintBatch", "mintBatchLegacy"}

\* the record lines 209-219 store for the arguments of a mint
MintedRecord(fn, a, timestamp) ==
    [origin |-> a.origin, timestamp |-> timestamp, supplierId |-> a.supplierId,
     carbonFootprint |-> a.carbonFootprint, temperature |-> 0, humidity |-> 0,
     complianceStatus |-> TRUE, currentHolder |-> "Supplier",
     geolocationHash |-> IF fn = "mintBatch" THEN a.geolocationHash ELSE Bytes32Zero]

\* the records of the tokens minted before this step are after it what they were
EarlierTokensKept ==
    \A t \in DOMAIN owners :
        /\ owners'[t] = owners[t]
        /\ tokenURIs'[t] = tokenURIs[t]
        /\ batches'[t] = batches[t]
        /\ batchHistory'[t] = batchHistory[t]

\* what a successful mint of this step has done, by the claim
MintedAsSent ==
    /\ nextTokenId' = nextTokenId + 1
    /\ nextTokenId \notin DOMAIN owners
    /\ owners'[nextTokenId] = lastTransaction'.args.to
    /\ tokenURIs'[nextTokenId] = lastTransaction'.args.uri
    /\ batches'[nextTokenId] =
          MintedRecord(lastTransaction'.fn, lastTransaction'.args, blockNumber')
    /\ batchHistory'[nextTokenId] = <<"Minted at Origin with EUDR geolocation">>
    /\ EarlierTokensKept

\* C21: the ids minted are 0, 1, 2, ... in this order; a successful mintBatch
\* (or mintBatchLegacy, with the zero hash) takes the next id, makes `to` its
\* owner, sets its URI to the uri sent, stores the record of the arguments
\* sent with temperature 0, humidity 0 and currentHolder "Supplier", leaves a
\* history of the one mint entry, and changes no record of an earlier token.
C21_MintStoresWhatWasSent ==
    /\ [](DOMAIN owners = 0..(nextTokenId - 1))
    /\ [][(Sends(Mints) /\ lastTransaction'.status = "success") => MintedAsSent]_allVars

\* the same for the mints whose receiver does not call back into the contract
C21_HoldsForQuietReceivers ==
    [][(Sends(Mints) /\ lastTransaction'.status = "success"
            /\ lastTransaction'.behaviour = "accept") => MintedAsSent]_allVars

\* every token but t has after this step the records it had before
OtherTokensKept(t) ==
    /\ DOMAIN owners' = DOMAIN owners
    /\ \A u \in DOMAIN owners \ {t} :
          /\ owners'[u] = owners[u]
          /\ tokenURIs'[u] = tokenURIs[u]
          /\ batches'[u] = batches[u]
          /\ batchHistory'[u] = batchHistory[u]

NothingWritten == UNCHANGED <<nextTokenId, owners, tokenURIs, batches, batchHistory>>

\* what a successful updateBatchData(a) of this step has done, by the claim
UpdatedAsSent(a) ==
    /\ lastTransaction'.status = "success"
    /\ batches'[a.tokenId].temperature = a.temperature
    /\ batches'[a.tokenId].humidity = a.humidity
    /\ batches'[a.tokenId].carbonFootprint =
          Uint(batches[a.tokenId].carbonFootprint.high + a.carbonFootprint.high,
               batches[a.tokenId].carbonFootprint.low + a.carbonFootprint.low)
    /\ batchHistory'[a.tokenId] = IF a.historyNote # ""
                                  THEN Append(batchHistory[a.tokenId], a.historyNote)
                                  ELSE batchHistory[a.tokenId]
    /\ tokenURIs'[a.tokenId] = IF a.newUri # "" THEN a.newUri ELSE tokenURIs[a.tokenId]
    /\ owners'[a.tokenId] = owners[a.tokenId]
    /\ nextTokenId' = nextTokenId
    /\ OtherTokensKept(a.tokenId)

Reverted == lastTransaction'.status = "reverted" /\ NothingWritten

\* the footprint of a token is written by its mint and by its updates only
FootprintWrittenByUpdatesOnly ==
    \A t \in DOMAIN batches :
        batches'[t].carbonFootprint # batches[t].carbonFootprint =>
            /\ Sends({"updateBatchData"})
            /\ lastTransaction'.args.tokenId = t

\* the sum of the stored footprint and the amount sent is a uint256
Fits(a) == batches[a.tokenId].carbonFootprint.high + a.carbonFootprint.high < 2

CustodyTransferred(a) ==
    /\ lastTransaction'.status = "success"
    /\ batches'[a.tokenId] = [batches[a.tokenId] EXCEPT !.currentHolder = a.nextHolder]
    /\ batchHistory'[a.tokenId] = Append(batchHistory[a.tokenId], a.historyNote)
    /\ owners' = owners
    /\ tokenURIs' = tokenURIs
    /\ nextTokenId' = nextTokenId
    /\ OtherTokensKept(a.tokenId)

\* C23: a transferCustody transaction succeeds exactly when its sender is the
\* ERC-721 owner of the token; it then sets currentHolder to nextHolder and
\* appends the note to the history, and leaves the owner, the URI and every
\* other member of the batch record (sensor values, footprint, geolocation
\* hash) as they were; sent by anyone else, a holder of MINTER_ROLE and
\* ORACLE_ROLE included, or for a token that does not exist, it reverts and
\* nothing is written.
C23_CustodyByOwnerOnly ==
    [][Sends({"transferCustody"}) =>
          IF /\ lastTransaction'.args.tokenId \in DOMAIN owners
             /\ owners[lastTransaction'.args.tokenId] = lastTransaction'.sender
          THEN CustodyTransferred(lastTransaction'.args)
          ELSE Reverted]_allVars

\* the owner of an updated token has transferred its custody
C23_Witness ==
    /\ blockNumber > 0
    /\ lastTransaction.fn = "transferCustody"
    /\ lastTransaction.status = "success"
    /\ lastTransaction.sender \notin roles[MINTER_ROLE]
    /\ batches[lastTransaction.args.tokenId].currentHolder = "Manufacturer"
    /\ batches[lastTransaction.args.tokenId].temperature = 250
    /\ batchHistory[lastTransaction.args.tokenId] =
          <<"Minted at Origin with EUDR geolocation", "Temp update", "Shipped">>

\* a holder of MINTER_ROLE and ORACLE_ROLE who does not own the token has
\* tried to transfer its custody
C23_RoleHolderRefused ==
    /\ blockNumber > 0
    /\ lastTransaction.fn = "transferCustody"
    /\ lastTransaction.status = "reverted"
    /\ lastTransaction.detail = "Caller is not owner"
    /\ lastTransaction.sender \in roles[MINTER_ROLE] \cap roles[ORACLE_ROLE]

\* the thresholds checkCompliance is asked about
Thresholds == {Uint(0, 0), Uint(0, 2000), Uint(0, 2550), Uint(0, 3000), Uint(1, 0),
               Uint(1, 2500)}

\* C24: checkCompliance(tokenId, maxCarbon) is true exactly when the stored
\* footprint of the token is at most maxCarbon, and once it is false for a
\* token and a threshold it is false after every later transaction.
C24_ComplianceNeverReturns ==
    /\ [](\A t \in DOMAIN batches, m \in Thresholds :
            checkCompliance(t, m) <=>
                \/ batches[t].carbonFootprint.high < m.high
                \/ /\ batches[t].carbonFootprint.high = m.high
                   /\ batches[t].carbonFootprint.low <= m.low)
    /\ [][\A t \in TokenIds, m \in Thresholds :
            ~checkCompliance(t, m) => ~checkCompliance(t, m)']_allVars

\* an update has taken token 0 from 2500 g to 2600 g: it was compliant with
\* 2550 g and is no longer, and more transactions can follow
C24_Witness ==
    /\ 0 < blockNumber /\ blockNumber < MaxTransactions
    /\ lastTransaction.fn = "updateBatchData"
    /\ lastTransaction.status = "success"
    /\ lastTransaction.args.tokenId = 0
    /\ batches[0].carbonFootprint = Uint(0, 2600)
    /\ ~checkCompliance(0, Uint(0, 2550))
    /\ checkCompliance(0, Uint(0, 3000))

IsPrefix(h, k) == Len(h) <= Len(k) /\ \A j \in 1..Len(h) : k[j] = h[j]

HistoriesGrow ==
    \A t \in DOMAIN batchHistory :
        /\ t \in DOMAIN batchHistory'
        /\ IsPrefix(getBatchHistory(t), getBatchHistory(t)')

\* C25: over mintBatch, updateBatchData, updateGeolocation and
\* transferCustody (and the transfers of the token) the history of a token
\* only grows at its end, so that its history in an earlier state is a
\* prefix of its history in every later state; and the first entry of the
\* history of every token is its mint entry.
C25_HistoryAppendOnly ==
    /\ [][HistoriesGrow]_allVars
    /\ [](\A t \in DOMAIN owners :
            /\ Len(getBatchHistory(t)) > 0
            /\ getBatchHistory(t)[1] = "Minted at Origin with EUDR geolocation")

\* the part of C25 that holds whatever the receiver of a mint does
C25_HistoriesOnlyGrow == [][HistoriesGrow]_allVars

(***************************************************************************)
(* Properties of POST /mint                                                *)
(***************************************************************************)
IsMintRequest == request.route = "mint"

\* the steps of POST /mint that have been taken
GeoNormalized == normalizedGeo # NoResult
ValidationCalled == pc # "idle"
Enriched == enrichedGeo # Undefined
HashComputed == geolocationHash # NoResult
UploadInvoked == cid # NoResult

\* this step is the call of blockchainService.mintBatch (line 137) with its
\* outcome
MintInvoked == routePc = "chain" /\ routePc' = "responded"

\* each step of the route has the steps before it behind it
StepsInOrder ==
    /\ ValidationCalled => (GeoNormalized /\ normalizedGeo.ok)
    /\ Enriched => (pc = "returned" /\ result.valid)
    /\ HashComputed => Enriched
    /\ UploadInvoked => (HashComputed /\ batchMetadata # Undefined)
    /\ routePc = "chain" => (UploadInvoked /\ cid.ok)
    /\ (Replied /\ reply.status = 200) => (UploadInvoked /\ cid.ok)

\* the geolocation did not pass: its normalization threw, or its validation
\* threw or returned a report that is not valid
GeolocationFailed ==
    \/ GeoNormalized /\ ~normalizedGeo.ok
    \/ pc = "threw"
    \/ pc = "returned" /\ ~result.valid

\* C26: in POST /mint the steps are taken in the order normalize, validate,
\* enrich, hash, upload, mint; when the normalization or the validation of
\* the geolocation fails the request is answered 400 and neither the upload
\* nor the mint is invoked; the mint is invoked only after the upload has
\* succeeded; and the success response follows the return of the mint.
C26_MintStepsInOrder ==
    /\ [](IsMintRequest =>
            /\ StepsInOrder
            /\ GeolocationFailed => (~UploadInvoked /\ routePc # "chain")
            /\ (GeolocationFailed /\ Replied) => reply.status = 400)
    /\ [][IsMintRequest =>
            /\ MintInvoked => (cid.ok /\ ~GeolocationFailed)
            /\ (routePc # "responded" /\ routePc' = "responded"
                    /\ reply'.status = 200) => MintInvoked]_allVars

\* the order of C26 without the status of the answer: it holds also for a
\* geolocation on which validateGeoJSON throws
C26_OrderHolds ==
    /\ [](IsMintRequest =>
            /\ StepsInOrder
            /\ GeolocationFailed => (~UploadInvoked /\ routePc # "chain"))
    /\ [][IsMintRequest =>
            /\ MintInvoked => (cid.ok /\ ~GeolocationFailed)
            /\ (routePc # "responded" /\ routePc' = "responded"
                    /\ reply'.status = 200) => MintInvoked]_allVars

MintSucceeded == IsMintRequest /\ Replied /\ reply.status = 200

\* the four hashes of a minted batch are one
HashesAgree ==
    /\ reply.minted.geolocationHash = reply.geolocationHash
    /\ Get(cid.value, "geolocation_hash") = reply.geolocationHash
    /\ HashOf(Get(cid.value, "geolocation")) = reply.geolocationHash

\* C28: after a successful POST /mint the hash sent to the chain, the
\* geolocationHash of the response, the geolocation_hash of the uploaded
\* metadata and computeGeolocationHash of the geolocation of the uploaded
\* metadata are equal, whatever the body, a `metadata` member included.
C28_HashesAgree == MintSucceeded => HashesAgree

\* the same for the bodies that carry no `metadata` member
C28_HoldsWithoutCallerMetadata ==
    (MintSucceeded /\ Get(Body, "metadata") = Undefined) => HashesAgree

(***************************************************************************)
(* Part 9: the IoT routes (routes/iot.ts, kept in                          *)
(* frontend/src/components/Layout.tsx lines 226-406)                       *)
(***************************************************************************)
\* the largest number of readings the devices send
MaxReadings == 3

\* the aggregate requests that may be under way at once
AggregateRequests == {1, 2}

\* the token the requests are about
IotTokenIds == {1}

\* the largest count a POST /simulate asks for
SimulateCounts == 1..2

\* Map.prototype.has, get, set and delete
MapHas(map, key) == key \in DOMAIN map
MapSet(map, key, value) ==
    [k \in DOMAIN map \cup {key} |-> IF k = key THEN value ELSE map[k]]
MapDelete(map, key) == [k \in DOMAIN map \ {key} |-> map[k]]

\* an aggregate request that is not under way
NotRunning == [pc |-> "idle"]

InitIot ==
    /\ ValidatorIdle
    /\ NormalizeIdle
    /\ HashIdle
    /\ DdsIdle
    /\ RouteIdle
    /\ ConcurrentIdle
    /\ ContractIdle
    /\ iotDataBuffer = <<>>
    /\ arrays = <<>>
    /\ readingCount = 0
    /\ aggregates = [r \in AggregateRequests |-> NotRunning]
    /\ pushed = <<>>
    /\ iotReplies = [r \in AggregateRequests |-> 0]
    /\ dataReply = 0

exceptIot == <<vars, normalizeVars, hashVars, ddsVars, routeVars, concurrentVars,
               contractVars>>

\* lines 256-259 and 384-390, `count` times: the Map gets an empty array for
\* the token when it has none, and the data points go to the end of the
\* array the Map holds
Buffered(tokenId, count) ==
    /\ readingCount + count <= MaxReadings
    /\ readingCount' = readingCount + count
    /\ IF MapHas(iotDataBuffer, tokenId)
       THEN /\ arrays' = [arrays EXCEPT ![iotDataBuffer[tokenId]] =
                                @ \o [n \in 1..count |-> readingCount + n]]
            /\ UNCHANGED iotDataBuffer
       ELSE /\ arrays' = Append(arrays, [n \in 1..count |-> readingCount + n])
            /\ iotDataBuffer' = MapSet(iotDataBuffer, tokenId, Len(arrays) + 1)
    /\ dataReply' = 200
    /\ UNCHANGED <<aggregates, pushed, iotReplies, exceptIot>>

\* POST /data, lines 236-272, with a complete body
PostData == \E tokenId \in IotTokenIds : Buffered(tokenId, 1)

\* POST /data, lines 240-244: a body without tokenId, temperature or humidity
PostDataRefused ==
    /\ dataReply' = 400
    /\ UNCHANGED <<iotDataBuffer, arrays, readingCount, aggregates, pushed, iotReplies,
                   exceptIot>>

\* POST /simulate/:tokenId, lines 361-404: the loop has no await, so it runs
\* to its end before any other handler
PostSimulate == \E tokenId \in IotTokenIds, count \in SimulateCounts : Buffered(tokenId, count)

\* what an aggregate request does to its own locals and its reply
Continues(r, frame, status) ==
    /\ aggregates' = [aggregates EXCEPT ![r] = frame]
    /\ iotReplies' = [iotReplies EXCEPT ![r] = status]
    /\ UNCHANGED <<readingCount, dataReply, exceptIot>>

\* POST /aggregate/:tokenId, lines 277-281: the parameter is not a number
AggregateInvalid(r) ==
    /\ aggregates[r].pc = "idle"
    /\ Continues(r, NotRunning, 400)
    /\ UNCHANGED <<iotDataBuffer, arrays, pushed>>

\* lines 283-287: no array for the token, or an empty one
AggregateNothing(r) ==
    /\ aggregates[r].pc = "idle"
    /\ \E tokenId \in IotTokenIds :
          \/ ~MapHas(iotDataBuffer, tokenId)
          \/ MapHas(iotDataBuffer, tokenId) /\ arrays[iotDataBuffer[tokenId]] = <<>>
    /\ Continues(r, NotRunning, 404)
    /\ UNCHANGED <<iotDataBuffer, arrays, pushed>>

\* lines 283-311: `buffer` is the array the Map holds (the array itself, not
\* a copy), the averages and the carbon estimate are computed from what it
\* holds now, and the handler awaits the upload
AggregateStart(r) ==
    /\ aggregates[r].pc = "idle"
    /\ \E tokenId \in IotTokenIds :
          /\ MapHas(iotDataBuffer, tokenId)
          /\ arrays[iotDataBuffer[tokenId]] # <<>>
          /\ Continues(r, [pc |-> "upload", tokenId |-> tokenId,
                           buffer |-> iotDataBuffer[tokenId],
                           averaged |-> arrays[iotDataBuffer[tokenId]],
                           dataPoints |-> Len(arrays[iotDataBuffer[tokenId]]),
                           carbonEstimate |-> Len(arrays[iotDataBuffer[tokenId]]) * 10],
                       iotReplies[r])
    /\ UNCHANGED <<iotDataBuffer, arrays, pushed>>

\* lines 308-321: the upload resolved; the note is built from the length the
\* array has now, and the handler awaits the transaction
UploadReturns(r) ==
    /\ aggregates[r].pc = "upload"
    /\ Continues(r, [aggregates[r] EXCEPT !.pc = "chain"] @@
                    [noted |-> Len(arrays[aggregates[r].buffer])],
                 iotReplies[r])
    /\ UNCHANGED <<iotDataBuffer, arrays, pushed>>

\* lines 308-311 and 337-340: the upload rejected
UploadFails(r) ==
    /\ aggregates[r].pc = "upload"
    /\ Continues(r, NotRunning, 500)
    /\ UNCHANGED <<iotDataBuffer, arrays, pushed>>

\* lines 314-336: the transaction was mined; the token's entry leaves the Map
ChainReturns(r) ==
    /\ aggregates[r].pc = "chain"
    /\ pushed' = Append(pushed, [tokenId |-> aggregates[r].tokenId,
                                 averaged |-> aggregates[r].averaged,
                                 carbonEstimate |-> aggregates[r].carbonEstimate,
                                 noted |-> aggregates[r].noted])
    /\ iotDataBuffer' = MapDelete(iotDataBuffer, aggregates[r].tokenId)
    /\ Continues(r, NotRunning, 200)
    /\ UNCHANGED arrays

\* lines 314-321 and 337-340: the transaction failed
ChainFails(r) ==
    /\ aggregates[r].pc = "chain"
    /\ Continues(r, NotRunning, 500)
    /\ UNCHANGED <<iotDataBuffer, arrays, pushed>>

NextIot ==
    \/ PostData
    \/ PostDataRefused
    \/ PostSimulate
    \/ \E r \in AggregateRequests : AggregateInvalid(r)
    \/ \E r \in AggregateRequests : AggregateNothing(r)
    \/ \E r \in AggregateRequests : AggregateStart(r)
    \/ \E r \in AggregateRequests : UploadReturns(r)
    \/ \E r \in AggregateRequests : UploadFails(r)
    \/ \E r \in AggregateRequests : ChainReturns(r)
    \/ \E r \in AggregateRequests : ChainFails(r)

IotSpec == InitIot /\ [][NextIot]_allVars

(***************************************************************************)
(* Properties of the IoT routes                                            *)
(***************************************************************************)
\* the readings the Map holds for a token
InBuffer(tokenId) ==
    IF MapHas(iotDataBuffer, tokenId)
    THEN {arrays[iotDataBuffer[tokenId]][n] : n \in DOMAIN arrays[iotDataBuffer[tokenId]]}
    ELSE {}

\* the aggregates pushed on chain that counted a reading
PushesOf(reading) ==
    {n \in DOMAIN pushed :
        \E m \in DOMAIN pushed[n].averaged : pushed[n].averaged[m] = reading}

\* every reading accepted is in the buffer and in no aggregate pushed, or in
\* exactly one aggregate pushed and not in the buffer
EveryReadingOnce ==
    \A reading \in 1..readingCount : \A tokenId \in IotTokenIds :
        IF reading \in InBuffer(tokenId)
        THEN PushesOf(reading) = {}
        ELSE Cardinality(PushesOf(reading)) = 1

\* an aggregate that fails leaves the buffer as it is, one that succeeds
\* removes it
FailureKeepsSuccessClears ==
    \A r \in AggregateRequests :
        /\ (aggregates[r].pc # "idle" /\ aggregates'[r].pc = "idle" /\ pushed' = pushed)
               => UNCHANGED <<iotDataBuffer, arrays>>
        /\ pushed' # pushed => \A tokenId \in IotTokenIds : InBuffer(tokenId)' = {}

\* C27: under any interleaving of POST /data, /simulate and /aggregate for
\* one token every reading is in exactly one aggregate pushed on chain or
\* still in the buffer; a failing aggregate leaves the buffer intact and a
\* successful one clears it.
C27_EveryReadingOnce == []EveryReadingOnce /\ [][FailureKeepsSuccessClears]_allVars

\* the part that holds: failure keeps the buffer, success clears it
C27_FailureKeepsSuccessClears == [][FailureKeepsSuccessClears]_allVars

\* no reading accepted is in neither the buffer nor an aggregate pushed
C27_NoReadingDropped ==
    ~(\E reading \in 1..readingCount : \A tokenId \in IotTokenIds :
          reading \notin InBuffer(tokenId) /\ PushesOf(reading) = {})

\* no reading is pushed twice
C27_NoReadingPushedTwice == \A reading \in 1..readingCount : Cardinality(PushesOf(reading)) <= 1

(***************************************************************************)
(* Properties of what calculateRiskAssessment returns                      *)
(***************************************************************************)
\* calculateRiskAssessment has reached its return statement (lines 669-673)
AssessmentReturns == ddsPc = "assessed"

\* the value of lines 669-673
AssessmentReturned == RiskAssessmentOf(Assessment)

\* the five conditions of negligible risk, read off the request
AllConditionsMet ==
    /\ HasGeolocation(geolocation)
    /\ result.valid
    /\ Get(Get(metadata, "deforestation_check"), "status") = Bool(TRUE)
    /\ Get(metadata, "legality_documents").t = "array"
    /\ Get(metadata, "legality_documents").items # <<>>
    /\ ~LacksPlotId(geolocation)
    /\ Truthy(Get(metadata, "quantity_net_mass_kg"))

\* C29: calculateRiskAssessment returns negligible, low or non-negligible,
\* never standard; it returns negligible exactly when the collection is not
\* empty and valid, the deforestation status is true, there is a legality
\* document, every feature has a plot_id and the quantity is not zero; and
\* the list of mitigation measures is absent iff the level is negligible.
C29_LevelsReturned ==
    AssessmentReturns =>
        /\ AssessmentReturned.risk_level \in {"negligible", "low", "non-negligible"}
        /\ AssessmentReturned.risk_level = "negligible" <=> AllConditionsMet
        /\ AssessmentReturned.mitigation_measures = Undefined <=> AssessmentReturned.risk_level = "negligible"

\* C29 witness: an assessment returns negligible, without a list of measures
C29_Witness ==
    /\ AssessmentReturns
    /\ AllConditionsMet
    /\ AssessmentReturned.risk_level = "negligible"
    /\ AssessmentReturned.mitigation_measures = Undefined

\* C29 witness, second part: an assessment returns low with a list of measures
C29_LowSeen ==
    /\ AssessmentReturns
    /\ AssessmentReturned.risk_level = "low"
    /\ AssessmentReturned.mitigation_measures # Undefined

(***************************************************************************)
(* Properties of the total area and the plot count of the Statement        *)
(***************************************************************************)
\* what one feature adds to the total of the Statement, in millionths of a
\* hectare
StatementAreaOf(f) ==
    IF GeomTypeOf(f) = Str("Polygon") THEN 100 * turfArea(f).value
    ELSE IF Truthy(DeclaredAreaOf(f)) THEN MicroHa(DeclaredAreaOf(f))
    ELSE 0

RECURSIVE SumStatementAreas(_, _)
SumStatementAreas(features, n) ==
    IF n = 0 THEN 0
    ELSE SumStatementAreas(features, n - 1) + StatementAreaOf(features[n])

\* the features of the collection the Statement is about
StatementFeatures == Get(geolocation, "features").items

\* some feature with a geometry of a type in `types` carries an area_ha
Declares(types) ==
    \E k \in DOMAIN StatementFeatures :
        /\ GeomTypeOf(StatementFeatures[k]) \in types
        /\ DeclaredAreaOf(StatementFeatures[k]) # Undefined

\* the validator processed every feature of the collection
NoneExcluded == Len(result.features) = Len(StatementFeatures)

\* the sum and the count of the Statement
SumAndCount ==
    /\ response.dds.total_area_ha
        = (SumStatementAreas(StatementFeatures, Len(StatementFeatures)) + 500) \div 1000
    /\ response.dds.plot_count = Len(StatementFeatures)
    /\ response.dds.plot_count >= Len(result.features)

C30_ExcludedCounted ==
    /\ Answered
    /\ response.dds.plot_count > Len(result.features)
    /\ ~Declares({Str("Point")})
    /\ response.dds.total_area_ha > result.total_area_ha
====
